---- MODULE Spec2Model ----
(***************************************************************************)
(* Race-condition engine of web-Payment-scanner: the dispatch rounds       *)
(* (barrier, workers, result channel, join) of testRaceConditionEnhanced,  *)
(* the 3-argument TestRaceCondition, testIdempotencyRaceCondition and      *)
(* TestWebSocketRaceCondition, and the classifiers that turn a result set  *)
(* into findings.                                                          *)
(*                                                                         *)
(* Strings are sequences: a formatted value (%d, %v) is the sequence of    *)
(* its characters, a literal piece of a format string is one element.      *)
(* URLs are sequences of characters.                                       *)
(***************************************************************************)
EXTENDS Integers, Sequences, FiniteSets, TLC

VARIABLES
    variant,        \* which round runs: "enhanced" | "basic" | "idem" | "ws" | "classify"
    endpoint,       \* models.Endpoint: [Method, URL]
    wsLog,          \* WSInterceptor.messages
    concurrency,    \* the round's concurrency
    mainpc,         \* position of the launching goroutine
    warmed,         \* warm-up loop counter i (enhanced)
    launched,       \* launch loop counter i
    wg,             \* sync.WaitGroup counter
    barrierCloses,  \* number of close(barrier) / close(startSignal) executed
    wpc,            \* position of each worker goroutine
    req,            \* each worker's request: "none" | "built" | "nil"
    answer,         \* each worker's network outcome: "none" | "ok" | "err"
    pending,        \* the value a worker is about to send on results
    results,        \* buffer of the results channel
    resultsClosed,  \* close(results) executed
    raceResults,    \* the slice drained from results
    sharedKey,      \* idempotency key shared by the workers (idem)
    templateMsg,    \* index in the payment messages of the template (ws), 0 when nil
    vulns,          \* the returned []models.Vulnerability
    panic,          \* "none", or the run-time panic that ended the process
    session,        \* *models.Session: [Cookies, Headers, SessionToken, URLToken]
    httpReq,        \* the requests built: per worker in a round, in order in a sequential test
    replies,        \* sequential test: what sendPaymentRequest / client.Do returned, in order
    clock,          \* the time of the last clock read of a sequential or repeated run
    mu,             \* Engine.mu: the caller holding it, -1 when unlocked
    engineVulns,    \* Engine.Vulns
    callers,        \* the goroutines calling addVulnerabilities: [pc, batch, local]
    delivered,      \* the result set handed to the second classifier run
    vulnsAgain,     \* what the second classifier run returned
    wire,           \* what was put on the WebSocket, in order: [Direction, Data, Answers]
    lastWSSend,     \* window._lastWSSend: <<>> when null, else <<[data, at]>>, at the position
                    \* on the wire of the message it holds
    lastWSRecv,     \* window._lastWSRecv, likewise
    confirmEndpoints, \* what inferConfirmationEndpoints returned
    confirmAgain,   \* what a second call of inferConfirmationEndpoints returned
    multiVulns,     \* what testMultiEndpointRace returned
    payMsgs,        \* paymentMsgs of a sequential WebSocket test: the payment messages it took from the log
    cursor,         \* its loop position: [m: message, a: test amount]
    pollpc,         \* pollMessages: "sent" before the first Evaluate of a tick, "recv" before the second
    pollsSinceSend, \* progress of the poller since the test's last send: 0, 1 (tick begun), 2 (tick done)
    limiter,        \* the EndpointState of one endpoint: [RateLimited, LastBackoff, ShouldPause]
    evasion,        \* EvasionContext: [RateLimited, SlowDown]
    delay,          \* what GetDelay returned last, with the count it was called at; <<>> before
    jobs,           \* the path brute forcer's jobs channel: [buf, sent, closed]
    pathResults,    \* its results channel: [buf, closes]
    pool,           \* its workers: [pc, path] each
    poolWg,         \* its WaitGroup counter
    closer,         \* the goroutine that waits and closes results: "none" | "waiting" | "done"
    taken,          \* history: for each wordlist entry, the workers that received it
    responses,      \* history: for each wordlist entry, the response its request got; <<>> before
    endpoints       \* what Start has collected

\* the state that only one of the tests or components uses
interceptorVars == <<lastWSSend, lastWSRecv>>
inferVars == <<confirmEndpoints, confirmAgain, multiVulns>>
probeVars == <<payMsgs, cursor, pollpc, pollsSinceSend>>
backoffVars == <<limiter, evasion, delay>>
bruteVars == <<jobs, pathResults, pool, poolWg, closer, taken, responses, endpoints>>
componentVars == <<interceptorVars, inferVars, probeVars, backoffVars, bruteVars>>

vars == <<variant, endpoint, wsLog, concurrency, mainpc, warmed, launched, wg,
          barrierCloses, wpc, req, answer, pending, results, resultsClosed,
          raceResults, sharedKey, templateMsg, vulns, panic,
          session, httpReq, replies, clock, mu, engineVulns, callers, delivered,
          vulnsAgain, wire, componentVars>>

\* the state of the sequential tests, of the Engine and of a repeated classifier
\* run, which a dispatch round leaves alone
otherVars == <<replies, clock, mu, engineVulns, callers, delivered, vulnsAgain, wire,
               componentVars>>

Nil == "nil"

-----------------------------------------------------------------------------
(* Bounds of the model *)

\* largest concurrency a round is run with when concurrency is a parameter
MaxConcurrency == 3
\* longest result set handed to analyzeRaceResults on its own
MaxResults == 3

-----------------------------------------------------------------------------
(* Strings *)

Digits == <<"0", "1", "2", "3", "4", "5", "6", "7", "8", "9">>

\* fmt's %d of a non-negative int
RECURSIVE Itoa(_)
Itoa(n) ==
    IF n < 10 THEN <<Digits[n + 1]>>
    ELSE Itoa(n \div 10) \o <<Digits[(n % 10) + 1]>>

\* fmt's %v of a bool
FormatBool(b) == IF b THEN <<"t", "r", "u", "e">> ELSE <<"f", "a", "l", "s", "e">>

\* fmt's %v of a time.Duration d (nanoseconds), for |d| below one microsecond:
\* "0s", "<d>ns", "-<d>ns"
FormatDuration(d) ==
    IF d = 0 THEN <<"0", "s">>
    ELSE IF d < 0 THEN <<"-">> \o Itoa(0 - d) \o <<"n", "s">>
    ELSE Itoa(d) \o <<"n", "s">>

\* strings.Contains
StringsContains(s, substr) ==
    \E i \in 0..(Len(s) - Len(substr)) : SubSeq(s, i + 1, i + Len(substr)) = substr

UpperCase == <<"A", "B", "C", "D", "E", "F", "G", "H", "I", "J", "K", "L", "M",
               "N", "O", "P", "Q", "R", "S", "T", "U", "V", "W", "X", "Y", "Z">>
LowerCase == <<"a", "b", "c", "d", "e", "f", "g", "h", "i", "j", "k", "l", "m",
               "n", "o", "p", "q", "r", "s", "t", "u", "v", "w", "x", "y", "z">>

ToLowerChar(c) ==
    IF \E i \in 1..26 : UpperCase[i] = c
    THEN LowerCase[CHOOSE i \in 1..26 : UpperCase[i] = c]
    ELSE c

\* strings.ToLower
StringsToLower(s) == [i \in 1..Len(s) |-> ToLowerChar(s[i])]

-----------------------------------------------------------------------------
(* Endpoints *)

\* the byte 0x7f, which url.Parse rejects ("invalid control character in URL")
DEL == "\\x7f"

UrlPay == <<"/", "p", "a", "y">>
UrlClaim == <<"/", "C", "l", "a", "i", "m">>
UrlUser == <<"/", "u", "s", "e", "r">>
UrlBad == <<"/", "p", "a", "y", DEL>>

\* url.Parse, as far as the control-character check that NewRequest relies on
UrlParses(url) == \A i \in 1..Len(url) : url[i] # DEL

\* net/http validMethod: a method is a token, the empty method means GET
ValidMethod(method) == method \in {"", "GET", "POST", "PUT", "DELETE", "PATCH"}

\* http.NewRequest(method, url, body) returns a request and no error
NewRequestOK(method, url) == ValidMethod(method) /\ UrlParses(url)

Endpoints ==
    { [Method |-> "POST", URL |-> UrlPay],
      [Method |-> "PUT", URL |-> UrlUser],
      [Method |-> "GET", URL |-> UrlClaim],
      [Method |-> "POST", URL |-> UrlBad] }

\* isSingleUseEndpoint
SingleUseKeywords ==
    << <<"c", "l", "a", "i", "m">>, <<"r", "e", "d", "e", "e", "m">>,
       <<"t", "r", "a", "n", "s", "f", "e", "r">>, <<"p", "a", "y">>,
       <<"c", "h", "e", "c", "k", "o", "u", "t">>, <<"a", "p", "p", "l", "y">> >>

isSingleUseEndpoint(url) ==
    LET lower == StringsToLower(url)
    IN \E k \in 1..Len(SingleUseKeywords) : StringsContains(lower, SingleUseKeywords[k])

-----------------------------------------------------------------------------
(* Classifiers *)

\* readings of the clock (time.Now), in seconds
Clock == {0, 1}

\* StatusCode >= 200 && StatusCode < 300
IsSuccessStatus(code) == code >= 200 /\ code < 300

\* the loop "for _, r := range results { if 2xx { successCount++ } }"
RECURSIVE CountSuccess(_, _)
CountSuccess(results_, i) ==
    IF i > Len(results_) THEN 0
    ELSE (IF IsSuccessStatus(results_[i].StatusCode) THEN 1 ELSE 0)
         + CountSuccess(results_, i + 1)

MinDurationFirst(results_, i) == results_[1].Duration

\* minDuration after the loop over results[1..i]
RECURSIVE MinDuration(_, _)
MinDuration(results_, i) ==
    IF i = 0 THEN results_[1].Duration
    ELSE LET m == MinDuration(results_, i - 1)
         IN IF results_[i].Duration < m THEN results_[i].Duration ELSE m

\* maxDuration after the loop over results[1..i]
RECURSIVE MaxDurationOf(_, _)
MaxDurationOf(results_, i) ==
    IF i = 0 THEN results_[1].Duration
    ELSE LET m == MaxDurationOf(results_, i - 1)
         IN IF results_[i].Duration > m THEN results_[i].Duration ELSE m

HasNegativeTimeOff(results_) == FALSE

\* hasNegativeTime after the loop
HasNegativeTime(results_) == \E i \in 1..Len(results_) : results_[i].Duration < 0

RaceThresholdOff(successCount) == successCount > 0

\* "if successCount > 1"
RaceThreshold(successCount) == successCount > 1

\* analyzeRaceResults(endpoint, results), Timestamp read from the clock
analyzeRaceResults(ep, results_, now) ==
    IF Len(results_) = 0 THEN <<>>
    ELSE LET successCount == CountSuccess(results_, 1)
             timingSpread == MaxDurationOf(results_, Len(results_))
                             - MinDuration(results_, Len(results_))
         IN IF RaceThreshold(successCount)
            THEN << [ Type |-> "Race Condition",
                      Severity |-> "CRITICAL",
                      Title |-> "Concurrent Request Race Condition Detected",
                      Description |->
                          <<"Server processed ">> \o Itoa(successCount)
                          \o <<" out of ">> \o Itoa(Len(results_))
                          \o <<" concurrent identical requests successfully. This indicates lack of proper concurrency control.">>,
                      Endpoint |-> ep.URL,
                      Method |-> ep.Method,
                      Proof |->
                          Itoa(Len(results_)) \o <<" concurrent requests sent, ">>
                          \o Itoa(successCount) \o <<" succeeded. Timing spread: ">>
                          \o FormatDuration(timingSpread) \o <<". Negative time: ">>
                          \o FormatBool(HasNegativeTime(results_)),
                      Timestamp |-> now ] >>
            ELSE <<>>

\* the tail of the 3-argument TestRaceCondition: count the 2xx codes read from
\* the channel, one HIGH finding when more than one succeeded on a single-use
\* endpoint; the finding sets no Proof
ClassifyStatusCodes(ep, codes, now) ==
    LET successCount == CountSuccess([i \in 1..Len(codes) |-> [StatusCode |-> codes[i]]], 1)
    IN IF successCount > 1 /\ isSingleUseEndpoint(ep.URL)
       THEN << [ Type |-> "Race Condition",
                 Severity |-> "HIGH",
                 Title |-> "Potential Race Condition Detected",
                 Description |->
                     <<"Endpoint accepted ">> \o Itoa(successCount)
                     \o <<" concurrent requests successfully.">>,
                 Endpoint |-> ep.URL,
                 Method |-> ep.Method,
                 Proof |-> <<>>,
                 Timestamp |-> now ] >>
       ELSE <<>>

\* *http.Response as sendPaymentRequest returns it
NilResp == [IsNil |-> TRUE, StatusCode |-> 0]
Resp(code) == [IsNil |-> FALSE, StatusCode |-> code]

CountSuccessRespAll(resps, i) == Len(resps)

\* the loop "if resp != nil && 2xx { successCount++ }"
RECURSIVE CountSuccessResp(_, _)
CountSuccessResp(resps, i) ==
    IF i > Len(resps) THEN 0
    ELSE (IF ~resps[i].IsNil /\ IsSuccessStatus(resps[i].StatusCode) THEN 1 ELSE 0)
         + CountSuccessResp(resps, i + 1)

\* the concurrency of testIdempotencyRaceCondition
IdemConcurrency == 5

\* const charset = "abcdefghijklmnopqrstuvwxyz0123456789"
Charset == LowerCase \o Digits

\* generateRandomString(length): every character is charset[UnixNano % 36];
\* nano is the clock reading the loop sees (one reading for the whole loop)
generateRandomString(length, nano) == [i \in 1..length |-> Charset[(nano % Len(Charset)) + 1]]

\* length of the random part of an idempotency key
RandomLength == 16

\* generateIdempotencyKey: "idem_<unix seconds>_<random string>", the clock
\* read at second `now`
generateIdempotencyKey(now) ==
    <<"idem_">> \o Itoa(now) \o <<"_">> \o generateRandomString(RandomLength, now * 1000000000)

\* the tail of testIdempotencyRaceCondition
ClassifyIdempotencyRace(ep, resps, key, now) ==
    LET successCount == CountSuccessResp(resps, 1)
    IN IF successCount > 1
       THEN << [ Type |-> "Idempotency Race Condition",
                 Severity |-> "CRITICAL",
                 Title |-> "Race Condition in Idempotency Key Validation",
                 Description |->
                     <<"Server processed ">> \o Itoa(successCount) \o <<" out of ">>
                     \o Itoa(IdemConcurrency)
                     \o <<" concurrent requests with the same idempotency key. This indicates a race condition in the idempotency validation logic.">>,
                 Endpoint |-> ep.URL,
                 Method |-> ep.Method,
                 Proof |->
                     <<"Sent ">> \o Itoa(IdemConcurrency)
                     \o <<" concurrent requests with key '">> \o key \o <<"', ">>
                     \o Itoa(successCount) \o <<" succeeded">>,
                 Timestamp |-> now ] >>
       ELSE <<>>

\* the loop "if success { successCount++ }"
RECURSIVE CountTrue(_, _)
CountTrue(bools, i) ==
    IF i > Len(bools) THEN 0
    ELSE (IF bools[i] THEN 1 ELSE 0) + CountTrue(bools, i + 1)

\* the tail of TestWebSocketRaceCondition
ClassifyWebSocket(bools, template, now) ==
    LET successCount == CountTrue(bools, 1)
    IN IF successCount > 1
       THEN << [ Type |-> "WebSocket Race Condition",
                 Severity |-> "CRITICAL",
                 Title |-> "WebSocket Race Condition",
                 Description |->
                     <<"WebSocket accepted ">> \o Itoa(successCount)
                     \o <<" concurrent identical messages">>,
                 Endpoint |-> <<>>,
                 Method |-> "",
                 Proof |-> <<"Template: ">> \o template.Data,
                 Timestamp |-> now ] >>
       ELSE <<>>

-----------------------------------------------------------------------------
(* WebSocket interceptor log *)

WsKeywordsRaw ==
    << <<"p", "a", "y", "m", "e", "n", "t">>, <<"p", "a", "y">>,
       <<"t", "r", "a", "n", "s", "a", "c", "t", "i", "o", "n">>,
       <<"a", "m", "o", "u", "n", "t">>, <<"s", "t", "a", "t", "u", "s">>,
       <<"c", "o", "n", "f", "i", "r", "m">>, <<"b", "a", "l", "a", "n", "c", "e">> >>

WsKeywordsJSON ==
    << <<"p", "a", "y", "m", "e", "n", "t">>,
       <<"t", "r", "a", "n", "s", "a", "c", "t", "i", "o", "n">>,
       <<"a", "m", "o", "u", "n", "t">>, <<"s", "t", "a", "t", "u", "s">>,
       <<"b", "a", "l", "a", "n", "c", "e">> >>

\* isPaymentMessage: keywords in the raw text when the message is not JSON,
\* in the JSON keys otherwise
isPaymentMessage(msg) ==
    IF ~msg.HasParsed
    THEN \E k \in 1..Len(WsKeywordsRaw) : StringsContains(msg.Data, WsKeywordsRaw[k])
    ELSE \E key \in msg.ParsedKeys :
            \E k \in 1..Len(WsKeywordsJSON) : StringsContains(key, WsKeywordsJSON[k])

\* GetPaymentMessages: the messages of the log that isPaymentMessage accepts, in order
RECURSIVE GetPaymentMessages(_)
GetPaymentMessages(log) ==
    IF log = <<>> THEN <<>>
    ELSE (IF isPaymentMessage(Head(log)) THEN <<Head(log)>> ELSE <<>>)
         \o GetPaymentMessages(Tail(log))

\* the first sent payment message instead of the last
LastSentIndexFirst(paymentMsgs) ==
    IF \E i \in 1..Len(paymentMsgs) : paymentMsgs[i].Direction = "sent"
    THEN CHOOSE i \in 1..Len(paymentMsgs) :
            /\ paymentMsgs[i].Direction = "sent"
            /\ \A j \in 1..(i - 1) : paymentMsgs[j].Direction # "sent"
    ELSE 0

\* "for i := len(paymentMsgs) - 1; i >= 0; i-- { if sent { templateMsg = &paymentMsgs[i]; break } }"
\* the (1-based) index of the last sent payment message, 0 when there is none
LastSentIndex(paymentMsgs) ==
    IF \E i \in 1..Len(paymentMsgs) : paymentMsgs[i].Direction = "sent"
    THEN CHOOSE i \in 1..Len(paymentMsgs) :
            /\ paymentMsgs[i].Direction = "sent"
            /\ \A j \in (i + 1)..Len(paymentMsgs) : paymentMsgs[j].Direction # "sent"
    ELSE 0

MsgPaySent == [Direction |-> "sent", Data |-> <<"p", "a", "y", "1">>,
               HasParsed |-> FALSE, ParsedKeys |-> {}]
MsgAmountSent == [Direction |-> "sent", Data |-> <<"{\"amount\":5}">>,
                  HasParsed |-> TRUE, ParsedKeys |-> {<<"a", "m", "o", "u", "n", "t">>}]
MsgStatusRecv == [Direction |-> "received", Data |-> <<"{\"status\":\"ok\"}">>,
                  HasParsed |-> TRUE, ParsedKeys |-> {<<"s", "t", "a", "t", "u", "s">>}]
MsgPingSent == [Direction |-> "sent", Data |-> <<"p", "i", "n", "g">>,
                HasParsed |-> FALSE, ParsedKeys |-> {}]

\* a sent payment message whose JSON text holds an escaped quote: {"payment":"a\"b"}
MsgNoteSent == [Direction |-> "sent", Data |-> <<"{\"payment\":\"a", "\\", "\"", "b\"}">>,
                HasParsed |-> TRUE, ParsedKeys |-> {<<"p", "a", "y", "m", "e", "n", "t">>}]

WsLogs ==
    { <<>>,
      <<MsgPaySent, MsgNoteSent, MsgStatusRecv>>,
      <<MsgPingSent>>,
      <<MsgStatusRecv>>,
      <<MsgPaySent, MsgStatusRecv>>,
      <<MsgPaySent, MsgPingSent, MsgAmountSent, MsgStatusRecv>> }

-----------------------------------------------------------------------------
(* sendWSMessage: the data is spliced, through escapeJS, between single      *)
(* quotes into a script that the page evaluates                              *)

\* escapeJS: "return s // TODO: proper escaping"
escapeJS(s) == s

Backslash == "\\"
JsQuote == "'"
LineFeed == "\n"

\* whether the text between the quotes is one JavaScript string literal: no
\* bare quote, no bare line end, no backslash left alone at the end
RECURSIVE JsLiteralParses(_)
JsLiteralParses(s) ==
    IF s = <<>> THEN TRUE
    ELSE IF Head(s) = Backslash
         THEN Len(s) >= 2 /\ JsLiteralParses(SubSeq(s, 3, Len(s)))
         ELSE Head(s) \notin {JsQuote, LineFeed} /\ JsLiteralParses(Tail(s))

\* the character a JavaScript escape sequence stands for
JsEscaped(c) == IF c = "n" THEN LineFeed ELSE c

\* the string value of the literal: the escape sequences are decoded
RECURSIVE JsLiteralValue(_)
JsLiteralValue(s) ==
    IF s = <<>> THEN <<>>
    ELSE IF Head(s) = Backslash
         THEN <<JsEscaped(s[2])>> \o JsLiteralValue(SubSeq(s, 3, Len(s)))
         ELSE <<Head(s)>> \o JsLiteralValue(Tail(s))

\* sendWSMessage(page, data) with the socket open (ready) or not: what it
\* returns and what window._ws.send puts on the socket.  A script that does
\* not parse makes Evaluate fail, which is reported as false.
sendWSMessage(data, ready) ==
    LET text == escapeJS(data)
    IN IF JsLiteralParses(text) /\ ready
       THEN [success |-> TRUE,
             put |-> <<[Direction |-> "sent", Data |-> JsLiteralValue(text), Answers |-> 0]>>]
       ELSE [success |-> FALSE, put |-> <<>>]

-----------------------------------------------------------------------------
(* Sessions and HTTP requests *)
(* A header map or cookie map is the set of its <<name, value>> pairs, each  *)
(* value a one-element sequence.                                            *)

\* browser.ExtractHeaders: the headers of a session taken from the browser
\* (two of its eight fixed name/value pairs)
ExtractHeaders ==
    { <<"User-Agent", <<"Mozilla/5.0 (X11; Linux x86_64)">>>>,
      <<"Accept", <<"application/json, text/plain, */*">>>> }

\* the session main builds when there is no login URL and no session file
AnonymousSession ==
    [Cookies |-> {}, Headers |-> {}, SessionToken |-> "", URLToken |-> ""]

\* a session extracted after login (and the same session saved and loaded)
ExtractedSession ==
    [Cookies |-> {<<"sid", <<"c0ffee">>>>},
     Headers |-> ExtractHeaders,
     SessionToken |-> "tok.en.1",
     URLToken |-> "u1"]

Sessions == {AnonymousSession, ExtractedSession}

\* http.Header.Set(k, v)
HeaderSet(h, k, v) == {p \in h : p[1] # k} \cup {<<k, v>>}

\* the loop "for k, v := range headers { req.Header.Set(k, v) }"
HeaderSetAll(h, headers) == {p \in h : \A q \in headers : q[1] # p[1]} \cup headers

\* http.NewRequest(method, url, body), when it succeeds; body is <<>> for nil
NewRequest(method, url, body) ==
    [Method |-> method, URL |-> url, Header |-> {}, Cookies |-> {}, Body |-> body]

\* req.Header.Set(k, v)
ReqHeaderSet(r, k, v) == [r EXCEPT !.Header = HeaderSet(@, k, v)]

addAuthHeadersConsuming(r, s) ==
    [req |-> [r EXCEPT !.Cookies = @ \cup s.Cookies,
                       !.Header = HeaderSetAll(@, s.Headers)],
     session |-> [s EXCEPT !.Cookies = {}]]

\* addAuthHeaders(req, session): every session cookie added, every session
\* header set; the request and the session after the call
addAuthHeaders(r, s) ==
    [req |-> [r EXCEPT !.Cookies = @ \cup s.Cookies,
                       !.Header = HeaderSetAll(@, s.Headers)],
     session |-> s]

\* payload of testRaceConditionEnhanced
EnhancedPayload == [amount |-> 100, currency |-> "USD", action |-> "debit"]

\* payloads of the idempotency tests
PaymentPayload(amount, orderId) ==
    [amount |-> amount, currency |-> "USD", order_id |-> orderId]

\* the request of an enhanced worker, and the session after it is built
EnhancedRequest(ep, s) ==
    addAuthHeaders(ReqHeaderSet(NewRequest(ep.Method, ep.URL, <<EnhancedPayload>>),
                                "Content-Type", <<"application/json">>), s)

\* the request of a worker of TestRaceCondition/3: no body, the session's
\* headers set and cookies added by the worker's own loops (which only read
\* the session)
BasicRequest(ep, s) ==
    [req |-> [NewRequest(ep.Method, ep.URL, <<>>) EXCEPT
                  !.Header = HeaderSetAll(@, s.Headers),
                  !.Cookies = @ \cup s.Cookies],
     session |-> s]

\* the request sendPaymentRequest builds
PaymentRequest(ep, s, idempotencyKey, payload) ==
    addAuthHeaders(
        ReqHeaderSet(ReqHeaderSet(NewRequest(ep.Method, ep.URL, <<payload>>),
                                  "Content-Type", <<"application/json">>),
                     "Idempotency-Key", idempotencyKey), s)

\* the request testIdempotencyMissingKey builds (twice)
MissingKeyRequest(ep, s, payload) ==
    addAuthHeaders(ReqHeaderSet(NewRequest(ep.Method, ep.URL, <<payload>>),
                                "Content-Type", <<"application/json">>), s)

\* the states of the parts of the model a specification does not run
NoSequentialTest == replies = <<>> /\ clock = 0
NoEngine == mu = -1 /\ engineVulns = <<>> /\ callers = <<>>
NoSecondRun == delivered = <<>> /\ vulnsAgain = <<>>

\* the interceptor shim holds no message
NoInterceptor == lastWSSend = <<>> /\ lastWSRecv = <<>>

\* no confirmation endpoint has been inferred
NoInference == confirmEndpoints = <<>> /\ confirmAgain = <<>> /\ multiVulns = <<>>

\* no sequential WebSocket test is running, the poller is between two ticks
NoProbe == payMsgs = <<>> /\ cursor = [m |-> 0, a |-> 0] /\ pollpc = "sent"
           /\ pollsSinceSend = 0

\* a 64-bit integer: its bits, the lowest first
Width == 64
Zero64 == [i \in 1..Width |-> 0]

\* a new EndpointState and a new EvasionContext, GetDelay not called
NoBackoff ==
    /\ limiter = [RateLimited |-> 0, LastBackoff |-> Zero64, ShouldPause |-> FALSE]
    /\ evasion = [RateLimited |-> 0, SlowDown |-> FALSE]
    /\ delay = <<>>

\* no path brute forcer started
NoBrute ==
    /\ jobs = [buf |-> <<>>, sent |-> 0, closed |-> FALSE]
    /\ pathResults = [buf |-> <<>>, closes |-> 0]
    /\ pool = <<>> /\ poolWg = 0 /\ closer = "none"
    /\ taken = <<>> /\ responses = <<>> /\ endpoints = <<>>

NoComponents == NoInterceptor /\ NoInference /\ NoProbe /\ NoBackoff /\ NoBrute

\* nothing has been put on a WebSocket
NoSocket == wire = <<>> /\ NoComponents

-----------------------------------------------------------------------------
(* A dispatch round *)

\* warm-up GET requests of testRaceConditionEnhanced
WarmupRequests == 10

\* status codes a server answers with
Statuses == {200, 409}

\* elapsed times (ns) a worker measures between startTime and endTime
Elapsed == {3, 8}

Workers == 0..(concurrency - 1)

ResultsCapShort(c) == c - 1

\* results := make(chan ..., concurrency)
ResultsCap(c) == c

BarrierReleasedEarly == TRUE

\* "<-barrier" returns: the channel has been closed
BarrierReleased == barrierCloses > 0

WaitReturnsEarly == TRUE

\* wg.Wait() returns
WaitReturns == wg = 0

\* the first statement of a worker goroutine: the enhanced worker prepares its
\* request, the others wait for the signal
FirstPc(v) == IF v = "enhanced" THEN "construct" ELSE "barrier"

\* what a worker does once the barrier is passed: the enhanced worker fires its
\* prepared request and the WebSocket worker sends the template; the others
\* build their request first
AfterBarrierPc(v) == IF v \in {"enhanced", "ws"} THEN "net" ELSE "build"

RoundConcurrencies(v) == IF v = "idem" THEN {IdemConcurrency} ELSE 1..MaxConcurrency

\* the endpoints a round is run on: the idempotency round reads of its endpoint
\* only whether the request can be built, the WebSocket round has no endpoint
RoundEndpoints(v) ==
    CASE v = "idem" -> {[Method |-> "POST", URL |-> UrlPay], [Method |-> "POST", URL |-> UrlBad]}
      [] v = "ws" -> {[Method |-> "POST", URL |-> UrlPay]}
      [] OTHER -> Endpoints

\* the session a round is run with: the rounds only copy the session onto
\* their requests, the WebSocket round does not read it
RoundSessions(v) == {ExtractedSession}

\* the payload of testIdempotencyRaceCondition
IdemRacePayload == PaymentPayload(100, "test_race_001")

\* the request a worker of the round builds, and the session after it
RoundRequest(v, ep, s, key) ==
    CASE v = "enhanced" -> EnhancedRequest(ep, s)
      [] v = "basic" -> BasicRequest(ep, s)
      [] v = "idem" -> PaymentRequest(ep, s, key, IdemRacePayload)

InitRound ==
    /\ variant \in {"enhanced", "basic", "idem", "ws"}
    /\ endpoint \in RoundEndpoints(variant)
    /\ session \in RoundSessions(variant)
    /\ wsLog \in (IF variant = "ws" THEN WsLogs ELSE {<<>>})
    /\ concurrency \in RoundConcurrencies(variant)
    /\ mainpc = "enter"
    /\ warmed = 0
    /\ launched = 0
    /\ wg = 0
    /\ barrierCloses = 0
    /\ wpc = [w \in Workers |-> "idle"]
    /\ req = [w \in Workers |-> "none"]
    /\ answer = [w \in Workers |-> "none"]
    /\ pending = [w \in Workers |-> Nil]
    /\ results = <<>>
    /\ resultsClosed = FALSE
    /\ raceResults = <<>>
    /\ sharedKey = <<>>
    /\ templateMsg = 0
    /\ vulns = <<>>
    /\ panic = "none"
    /\ httpReq = [w \in Workers |-> <<>>]
    /\ NoSequentialTest /\ NoEngine /\ NoSecondRun /\ NoSocket

Running == panic = "none"

(* ---- the launching goroutine ---- *)

\* testRaceConditionEnhanced: client built, warm-up loop entered
EnterEnhanced ==
    /\ Running /\ variant = "enhanced" /\ mainpc = "enter"
    /\ mainpc' = "warmup"
    /\ UNCHANGED <<variant, endpoint, wsLog, concurrency, warmed, launched, wg,
                   barrierCloses, wpc, req, answer, pending, results, resultsClosed,
                   raceResults, sharedKey, templateMsg, vulns, panic,
                   session, httpReq, otherVars>>

\* a warm-up that gives the test up at the first failed request
WarmupAbortsOnFailure(failed) == IF failed THEN "done" ELSE "warmup"

\* where the warm-up loop goes after an iteration: "if err != nil { continue }"
\* and "client.Do(req)" with its results dropped both go to the next iteration
WarmupGoesOn(failed) == "warmup"

\* one warm-up iteration: NewRequest("GET", URL), which fails on a URL that
\* does not parse, and, when it succeeds, addAuthHeaders and client.Do with
\* the response and the error ignored
Warmup ==
    /\ Running /\ mainpc = "warmup" /\ warmed < WarmupRequests
    /\ \E failed \in BOOLEAN :
          /\ ~NewRequestOK("GET", endpoint.URL) => failed
          /\ mainpc' = WarmupGoesOn(failed)
    /\ warmed' = warmed + 1
    /\ UNCHANGED <<variant, endpoint, wsLog, concurrency, launched, wg,
                   barrierCloses, wpc, req, answer, pending, results, resultsClosed,
                   raceResults, sharedKey, templateMsg, vulns, panic,
                   session, httpReq, replies, clock, mu, engineVulns, callers, delivered,
                   vulnsAgain, wire, componentVars>>

\* end of the warm-up loop, the sleep, the payload; barrier and results made
WarmupDone ==
    /\ Running /\ mainpc = "warmup" /\ warmed = WarmupRequests
    /\ mainpc' = "launch"
    /\ UNCHANGED <<variant, endpoint, wsLog, concurrency, warmed, launched, wg,
                   barrierCloses, wpc, req, answer, pending, results, resultsClosed,
                   raceResults, sharedKey, templateMsg, vulns, panic,
                   session, httpReq, otherVars>>

\* TestRaceCondition/3: only POST and PUT are tested
EnterBasic ==
    /\ Running /\ variant = "basic" /\ mainpc = "enter"
    /\ mainpc' = IF endpoint.Method # "POST" /\ endpoint.Method # "PUT" THEN "done" ELSE "launch"
    /\ UNCHANGED <<variant, endpoint, wsLog, concurrency, warmed, launched, wg,
                   barrierCloses, wpc, req, answer, pending, results, resultsClosed,
                   raceResults, sharedKey, templateMsg, vulns, panic,
                   session, httpReq, otherVars>>

\* testIdempotencyRaceCondition: the shared key is generated
EnterIdem ==
    /\ Running /\ variant = "idem" /\ mainpc = "enter"
    /\ \E now \in Clock : sharedKey' = generateIdempotencyKey(now)
    /\ mainpc' = "launch"
    /\ UNCHANGED <<variant, endpoint, wsLog, concurrency, warmed, launched, wg,
                   barrierCloses, wpc, req, answer, pending, results, resultsClosed,
                   raceResults, templateMsg, vulns, panic,
                   session, httpReq, otherVars>>

\* TestWebSocketRaceCondition: the template is the last sent payment message;
\* without one the test returns no finding
EnterWS ==
    /\ Running /\ variant = "ws" /\ mainpc = "enter"
    /\ LET paymentMsgs == GetPaymentMessages(wsLog)
       IN /\ templateMsg' = LastSentIndex(paymentMsgs)
          /\ mainpc' = IF Len(paymentMsgs) = 0 \/ LastSentIndex(paymentMsgs) = 0
                       THEN "done" ELSE "launch"
    /\ UNCHANGED <<variant, endpoint, wsLog, concurrency, warmed, launched, wg,
                   barrierCloses, wpc, req, answer, pending, results, resultsClosed,
                   raceResults, sharedKey, vulns, panic,
                   session, httpReq, otherVars>>

\* one iteration of the launch loop: wg.Add(1); go func(){...}()
Launch ==
    /\ Running /\ mainpc = "launch" /\ launched < concurrency
    /\ wg' = wg + 1
    /\ wpc' = [wpc EXCEPT ![launched] = FirstPc(variant)]
    /\ launched' = launched + 1
    /\ UNCHANGED <<variant, endpoint, wsLog, concurrency, mainpc, warmed,
                   barrierCloses, req, answer, pending, results, resultsClosed,
                   raceResults, sharedKey, templateMsg, vulns, panic,
                   session, httpReq, otherVars>>

\* close(barrier), after the launch loop
CloseBarrier ==
    /\ Running /\ mainpc = "launch" /\ launched = concurrency
    /\ barrierCloses' = barrierCloses + 1
    /\ panic' = IF barrierCloses > 0 THEN "close of closed channel" ELSE panic
    /\ mainpc' = "wait"
    /\ UNCHANGED <<variant, endpoint, wsLog, concurrency, warmed, launched, wg,
                   wpc, req, answer, pending, results, resultsClosed,
                   raceResults, sharedKey, templateMsg, vulns,
                   session, httpReq, otherVars>>

\* wg.Wait() returns
WaitReturn ==
    /\ Running /\ mainpc = "wait" /\ WaitReturns
    /\ mainpc' = "closeResults"
    /\ UNCHANGED <<variant, endpoint, wsLog, concurrency, warmed, launched, wg,
                   barrierCloses, wpc, req, answer, pending, results, resultsClosed,
                   raceResults, sharedKey, templateMsg, vulns, panic,
                   session, httpReq, otherVars>>

\* close(results)
CloseResults ==
    /\ Running /\ mainpc = "closeResults"
    /\ resultsClosed' = TRUE
    /\ mainpc' = "drain"
    /\ UNCHANGED <<variant, endpoint, wsLog, concurrency, warmed, launched, wg,
                   barrierCloses, wpc, req, answer, pending, results,
                   raceResults, sharedKey, templateMsg, vulns, panic,
                   session, httpReq, otherVars>>

\* "for result := range results": the buffered values in channel order, until
\* the closed channel is empty
Drain ==
    /\ Running /\ mainpc = "drain" /\ resultsClosed
    /\ raceResults' = results
    /\ results' = <<>>
    /\ mainpc' = "classify"
    /\ UNCHANGED <<variant, endpoint, wsLog, concurrency, warmed, launched, wg,
                   barrierCloses, wpc, req, answer, pending, resultsClosed,
                   sharedKey, templateMsg, vulns, panic,
                   session, httpReq, otherVars>>

\* templateMsg = &paymentMsgs[i]
TemplateMsg == GetPaymentMessages(wsLog)[templateMsg]

\* the findings of the round, by the classifier of its variant
ClassifyRound(now) ==
    CASE variant = "enhanced" -> analyzeRaceResults(endpoint, raceResults, now)
      [] variant = "basic" -> ClassifyStatusCodes(endpoint, raceResults, now)
      [] variant = "idem" -> ClassifyIdempotencyRace(endpoint, raceResults, sharedKey, now)
      [] variant = "ws" ->
            ClassifyWebSocket(raceResults, TemplateMsg, now)

\* the drained results are classified and the findings returned
Classify ==
    /\ Running /\ mainpc = "classify" /\ variant # "classify"
    /\ \E now \in Clock : vulns' = ClassifyRound(now)
    /\ mainpc' = "done"
    /\ UNCHANGED <<variant, endpoint, wsLog, concurrency, warmed, launched, wg,
                   barrierCloses, wpc, req, answer, pending, results, resultsClosed,
                   raceResults, sharedKey, templateMsg, panic,
                   session, httpReq, otherVars>>

(* ---- the worker goroutines ---- *)

DoneOnDropLeak(n) == n

\* the WaitGroup counter after "if err != nil { return }" in a worker whose
\* wg.Done is deferred
DoneOnDrop(n) == n - 1

\* enhanced worker, before the barrier: http.NewRequest, Content-Type,
\* addAuthHeaders; on error the worker returns (deferred wg.Done)
Construct(w) ==
    /\ Running /\ variant = "enhanced" /\ wpc[w] = "construct"
    /\ IF NewRequestOK(endpoint.Method, endpoint.URL)
       THEN /\ req' = [req EXCEPT ![w] = "built"]
            /\ LET built == RoundRequest(variant, endpoint, session, sharedKey)
               IN /\ httpReq' = [httpReq EXCEPT ![w] = <<built.req>>]
                  /\ session' = built.session
            /\ wpc' = [wpc EXCEPT ![w] = "barrier"]
            /\ wg' = wg
       ELSE /\ req' = [req EXCEPT ![w] = "nil"]
            /\ wpc' = [wpc EXCEPT ![w] = "done"]
            /\ wg' = DoneOnDrop(wg)
            /\ UNCHANGED <<httpReq, session>>
    /\ UNCHANGED <<variant, endpoint, wsLog, concurrency, mainpc, warmed, launched,
                   barrierCloses, answer, pending, results, resultsClosed,
                   raceResults, sharedKey, templateMsg, vulns, panic, otherVars>>

\* "<-barrier" returns
PassBarrier(w) ==
    /\ Running /\ wpc[w] = "barrier" /\ BarrierReleased
    /\ wpc' = [wpc EXCEPT ![w] = AfterBarrierPc(variant)]
    /\ UNCHANGED <<variant, endpoint, wsLog, concurrency, mainpc, warmed, launched, wg,
                   barrierCloses, req, answer, pending, results, resultsClosed,
                   raceResults, sharedKey, templateMsg, vulns, panic,
                   session, httpReq, otherVars>>

\* basic and idem worker, after the barrier: "req, _ := http.NewRequest(...)"
\* with the error dropped, then headers set on req; a nil req is dereferenced
\* (req.Header.Set, req.AddCookie, client.Do(nil)) and the goroutine panics,
\* which runs the deferred wg.Done and ends the process
Build(w) ==
    /\ Running /\ variant \in {"basic", "idem"} /\ wpc[w] = "build"
    /\ IF NewRequestOK(endpoint.Method, endpoint.URL)
       THEN /\ req' = [req EXCEPT ![w] = "built"]
            /\ LET built == RoundRequest(variant, endpoint, session, sharedKey)
               IN /\ httpReq' = [httpReq EXCEPT ![w] = <<built.req>>]
                  /\ session' = built.session
            /\ wpc' = [wpc EXCEPT ![w] = "net"]
            /\ UNCHANGED <<wg, panic>>
       ELSE /\ req' = [req EXCEPT ![w] = "nil"]
            /\ wpc' = [wpc EXCEPT ![w] = "done"]
            /\ wg' = wg - 1
            /\ panic' = "nil pointer dereference"
            /\ UNCHANGED <<httpReq, session>>
    /\ UNCHANGED <<variant, endpoint, wsLog, concurrency, mainpc, warmed, launched,
                   barrierCloses, answer, pending, results, resultsClosed,
                   raceResults, sharedKey, templateMsg, vulns, otherVars>>

\* the value a worker puts on the channel for a network outcome; Nil when the
\* worker returns without sending
ResultFor(v, w, ok, code, elapsed) ==
    CASE v = "enhanced" ->
            IF ok THEN [ID |-> w, StatusCode |-> code, Duration |-> elapsed] ELSE Nil
      [] v = "basic" -> IF ok THEN code ELSE 0
      [] v = "idem" -> IF ok THEN Resp(code) ELSE NilResp
      [] v = "ws" -> ok

\* whether a worker sends a value for a network outcome (the enhanced worker
\* returns on error)
SendsResult(v, ok) == v # "enhanced" \/ ok

\* client.Do / sendWSMessage returns: a response, or an error (a timeout
\* included); the enhanced worker reads the clock around the call and the body.
\* A WebSocket send goes through the interceptor's wrapper of ws.send, which
\* overwrites window._lastWSSend.
NetReturn(w) ==
    /\ Running /\ wpc[w] = "net"
    /\ \E up \in BOOLEAN, code \in Statuses, elapsed \in Elapsed :
          LET sent == IF variant = "ws" THEN sendWSMessage(TemplateMsg.Data, up)
                      ELSE [success |-> up, put |-> <<>>]
              ok == sent.success
          IN /\ (~up \/ variant = "ws") => code = 200
             /\ (~up \/ variant # "enhanced") => elapsed = 3
             /\ wire' = wire \o sent.put
             /\ lastWSSend' = IF sent.put = <<>> THEN lastWSSend
                               ELSE <<[data |-> sent.put[1].Data, at |-> Len(wire')]>>
             /\ answer' = [answer EXCEPT ![w] = IF ok THEN "ok" ELSE "err"]
             /\ IF SendsResult(variant, ok)
                THEN /\ pending' = [pending EXCEPT ![w] = ResultFor(variant, w, ok, code, elapsed)]
                     /\ wpc' = [wpc EXCEPT ![w] = "send"]
                     /\ wg' = wg
                ELSE /\ pending' = pending
                     /\ wpc' = [wpc EXCEPT ![w] = "done"]
                     /\ wg' = wg - 1
    /\ UNCHANGED <<variant, endpoint, wsLog, concurrency, mainpc, warmed, launched,
                   barrierCloses, req, results, resultsClosed,
                   raceResults, sharedKey, templateMsg, vulns, panic,
                   session, httpReq, replies, clock, mu, engineVulns, callers, delivered,
                   vulnsAgain, lastWSRecv, inferVars, probeVars, backoffVars, bruteVars>>

\* "results <- value", then the worker returns (deferred wg.Done); a send on a
\* closed channel panics, a send on a full channel blocks
Send(w) ==
    /\ Running /\ wpc[w] = "send"
    /\ IF resultsClosed
       THEN /\ panic' = "send on closed channel"
            /\ UNCHANGED <<results, wpc, wg>>
       ELSE /\ Len(results) < ResultsCap(concurrency)
            /\ results' = Append(results, pending[w])
            /\ wpc' = [wpc EXCEPT ![w] = "done"]
            /\ wg' = wg - 1
            /\ panic' = panic
    /\ UNCHANGED <<variant, endpoint, wsLog, concurrency, mainpc, warmed, launched,
                   barrierCloses, req, answer, pending, resultsClosed,
                   raceResults, sharedKey, templateMsg, vulns,
                   session, httpReq, otherVars>>

WorkerStep(w) == Construct(w) \/ PassBarrier(w) \/ Build(w) \/ NetReturn(w) \/ Send(w)

\* the steps of the rounds of TestRaceCondition (both) and TestWebSocketRaceCondition
NextRace ==
    \/ EnterEnhanced \/ Warmup \/ WarmupDone \/ EnterBasic \/ EnterWS
    \/ Launch \/ CloseBarrier \/ WaitReturn \/ CloseResults \/ Drain \/ Classify
    \/ \E w \in Workers : Construct(w)
    \/ \E w \in Workers : PassBarrier(w)
    \/ \E w \in Workers : Build(w)
    \/ \E w \in Workers : NetReturn(w)
    \/ \E w \in Workers : Send(w)

Next == EnterIdem \/ NextRace

Spec == InitRound /\ [][Next]_vars

\* the scheduler keeps running a runnable goroutine while there is one, and a
\* network call returns (the clients carry a timeout)
\* (the rounds of TestRaceCondition, both, and of TestWebSocketRaceCondition;
\* on the POST endpoints, one that builds and one that does not: the method
\* only decides whether TestRaceCondition/3 runs a round at all)
InitRace == InitRound /\ variant # "idem" /\ endpoint.Method = "POST"

FairSpec == InitRace /\ [][NextRace]_vars /\ WF_vars(NextRace)

-----------------------------------------------------------------------------
(* analyzeRaceResults on its own: every result set up to MaxResults *)

ClassifyStatuses == {199, 200, 299, 300}
ClassifyDurations == {-1, 0, 2}

\* result sets: worker i-1's record at position i
ResultSets ==
    UNION { { [i \in 1..n |-> [ID |-> i - 1, StatusCode |-> f[i][1], Duration |-> f[i][2]]] :
                f \in [1..n -> ClassifyStatuses \X ClassifyDurations] } : n \in 0..MaxResults }

InitClassify ==
    /\ variant = "classify"
    /\ endpoint \in {[Method |-> "POST", URL |-> UrlPay], [Method |-> "PUT", URL |-> UrlUser]}
    /\ raceResults \in ResultSets
    /\ mainpc = "classify"
    /\ session = AnonymousSession
    /\ httpReq = <<>>
    /\ NoSequentialTest /\ NoEngine /\ NoSecondRun /\ NoSocket
    /\ wsLog = <<>>
    /\ concurrency = 0
    /\ warmed = 0
    /\ launched = 0
    /\ wg = 0
    /\ barrierCloses = 0
    /\ wpc = <<>>
    /\ req = <<>>
    /\ answer = <<>>
    /\ pending = <<>>
    /\ results = <<>>
    /\ resultsClosed = FALSE
    /\ sharedKey = <<>>
    /\ templateMsg = 0
    /\ vulns = <<>>
    /\ panic = "none"

\* vulns = analyzeRaceResults(endpoint, raceResults)
AnalyzeResults ==
    /\ variant = "classify" /\ mainpc = "classify"
    /\ \E now \in Clock : vulns' = analyzeRaceResults(endpoint, raceResults, now)
    /\ mainpc' = "done"
    /\ UNCHANGED <<variant, endpoint, wsLog, concurrency, warmed, launched, wg,
                   barrierCloses, wpc, req, answer, pending, results, resultsClosed,
                   raceResults, sharedKey, templateMsg, panic,
                   session, httpReq, otherVars>>

NextClassify == AnalyzeResults

SpecClassify == InitClassify /\ [][NextClassify]_vars

-----------------------------------------------------------------------------
(* The sequential idempotency tests: key collision, expired key, missing   *)
(* key, key case.  Each sends one or two requests, one after the other.    *)

\* no dispatch round is running
NoRound ==
    /\ wsLog = <<>> /\ concurrency = 0 /\ warmed = 0 /\ launched = 0 /\ wg = 0
    /\ barrierCloses = 0 /\ wpc = <<>> /\ req = <<>> /\ answer = <<>>
    /\ pending = <<>> /\ results = <<>> /\ resultsClosed = FALSE
    /\ raceResults = <<>> /\ templateMsg = 0

roundVars == <<wsLog, concurrency, warmed, launched, wg, barrierCloses, wpc, req,
               answer, pending, results, resultsClosed, raceResults, templateMsg>>

\* fmt's %d of an int64
FormatInt(n) == IF n < 0 THEN <<"-">> \o Itoa(0 - n) ELSE Itoa(n)

\* bodyBytes := make([]byte, 4096)
BodyBuffer == 4096

\* a stretch of BodyBuffer bytes of response text
Filler == "<4096 bytes>"

\* a response body is the sequence of the pieces it arrives in; the length of
\* a piece in bytes (a piece of text is short)
PieceSize(piece) == IF piece = Filler THEN BodyBuffer ELSE 16

RECURSIVE BodySize(_)
BodySize(body) == IF body = <<>> THEN 0 ELSE PieceSize(Head(body)) + BodySize(Tail(body))

\* the bodies a server answers with
ServerBodies ==
    { <<"receipt-1">>, <<"receipt-2">>, <<"receipt-2", "idempotency">>,
      <<Filler, "idempotency">> }

\* "n, _ := resp.Body.Read(bodyBytes)": one Read returns what has arrived, at
\* most BodyBuffer bytes and at least one piece of a body that is not empty
ReadBody(body) ==
    { SubSeq(body, 1, k) : k \in { j \in 0..Len(body) :
                                      /\ j = 0 => body = <<>>
                                      /\ BodySize(SubSeq(body, 1, j)) <= BodyBuffer } }

\* what sendPaymentRequest returns on a client.Do error: (nil, "")
NilReply == [IsNil |-> TRUE, StatusCode |-> 0, Body |-> <<>>, BodyRead |-> <<>>]

\* a response with the server's body and the body text the test holds
Reply(code, body, bodyRead) ==
    [IsNil |-> FALSE, StatusCode |-> code, Body |-> body, BodyRead |-> bodyRead]

\* status codes a server answers a sequential test with
SeqStatuses == {199, 200, 299, 300}

\* what a call can return: the collision test compares the body texts, the
\* other tests look at the status only, and the missing-key test reads no body
SeqReplies(v) ==
    {NilReply} \cup
    CASE v = "collision" ->
            UNION { { Reply(code, body, bodyRead) : bodyRead \in ReadBody(body) } :
                        code \in SeqStatuses, body \in ServerBodies }
      [] v = "missing" -> { Reply(code, <<"receipt-1">>, <<>>) : code \in SeqStatuses }
      [] OTHER -> { Reply(code, <<"receipt-1">>, <<"receipt-1">>) : code \in SeqStatuses }

\* oldKey of testIdempotencyExpiredKeyReuse: the Unix time 25 hours before now
ExpiredKey(now, nano) ==
    <<"idem_">> \o FormatInt(now - 25 * 3600) \o <<"_">>
    \o generateRandomString(RandomLength, nano)

\* baseKey of testIdempotencyCaseSensitivity
BaseKey == <<"I", "d", "e", "m", "p", "o", "t", "e", "n", "c", "y", "K", "e", "y",
             "1", "2", "3", "A", "B", "C">>

CaseSecondKeySame(baseKey) == baseKey

\* lowerKey := strings.ToLower(baseKey)
CaseSecondKey(baseKey) == StringsToLower(baseKey)

\* the idempotency key of the first request, the clock read at second `now`
FirstKey(v, now) ==
    CASE v = "collision" -> generateIdempotencyKey(now)
      [] v = "expired" -> ExpiredKey(now, now * 1000000000)
      [] v = "case" -> BaseKey
      [] v = "missing" -> <<>>

\* the idempotency key of the second request
SecondKey(v, first) == IF v = "case" THEN CaseSecondKey(first) ELSE first

\* the payload of the n-th request
SeqPayload(v, n) ==
    CASE v = "collision" ->
            IF n = 1 THEN PaymentPayload(100, "test_collision_001")
            ELSE PaymentPayload(200, "test_collision_002")
      [] v = "expired" -> PaymentPayload(100, "test_expired_001")
      [] v = "missing" -> PaymentPayload(100, "test_missing_key_001")
      [] v = "case" -> PaymentPayload(100, "test_case_001")

\* the n-th request, and the session after it is built
SeqRequest(v, ep, s, key, n) ==
    IF v = "missing" THEN MissingKeyRequest(ep, s, SeqPayload(v, n))
    ELSE PaymentRequest(ep, s, key, SeqPayload(v, n))

\* whether the test goes on to its second request after the first call
FirstAccepted(v, reply) ==
    IF v = "missing" THEN ~reply.IsNil
    ELSE ~reply.IsNil /\ IsSuccessStatus(reply.StatusCode)

\* the tail of testIdempotencyKeyCollision
CollisionFindings(ep, r1, r2, key, now) ==
    IF /\ ~r2.IsNil
       /\ IsSuccessStatus(r2.StatusCode)
       /\ r1.BodyRead # r2.BodyRead
       /\ ~StringsContains(r2.BodyRead, <<"idempotency">>)
    THEN << [ Type |-> "Idempotency Key Collision",
              Severity |-> "CRITICAL",
              Title |-> "Idempotency Key Collision - Different Requests Accepted",
              Endpoint |-> ep.URL,
              Method |-> ep.Method,
              Proof |-> <<"Key: ">> \o key
                        \o <<", Request1: amount=100, Request2: amount=200, Both accepted with different responses">>,
              Timestamp |-> now ] >>
    ELSE <<>>

ExpiredFindingsAlways(ep, r, key, now) ==
    << [ Type |-> "Idempotency Key Expiry", Severity |-> "MEDIUM",
         Title |-> "No Idempotency Key Expiry Validation",
         Endpoint |-> ep.URL, Method |-> ep.Method,
         Proof |-> <<>>, Timestamp |-> now ] >>

\* the tail of testIdempotencyExpiredKeyReuse
ExpiredFindings(ep, r, key, now) ==
    IF ~r.IsNil /\ IsSuccessStatus(r.StatusCode)
    THEN << [ Type |-> "Idempotency Key Expiry",
              Severity |-> "MEDIUM",
              Title |-> "No Idempotency Key Expiry Validation",
              Endpoint |-> ep.URL,
              Method |-> ep.Method,
              Proof |-> <<"Sent key with 25-hour old timestamp: ">> \o key
                        \o <<", received ">> \o Itoa(r.StatusCode),
              Timestamp |-> now ] >>
    ELSE <<>>

MissingKeyFindingsSecondOnly(ep, r1, r2, now) ==
    IF ~r2.IsNil /\ IsSuccessStatus(r2.StatusCode)
    THEN << [ Type |-> "Idempotency Key Missing", Severity |-> "HIGH",
              Title |-> "Idempotency Key Not Required",
              Endpoint |-> ep.URL, Method |-> ep.Method,
              Proof |-> <<>>, Timestamp |-> now ] >>
    ELSE <<>>

\* the tail of testIdempotencyMissingKey
MissingKeyFindings(ep, r1, r2, now) ==
    IF /\ ~r2.IsNil
       /\ IsSuccessStatus(r1.StatusCode)
       /\ IsSuccessStatus(r2.StatusCode)
    THEN << [ Type |-> "Idempotency Key Missing",
              Severity |-> "HIGH",
              Title |-> "Idempotency Key Not Required",
              Endpoint |-> ep.URL,
              Method |-> ep.Method,
              Proof |-> <<"Sent 2 identical requests without Idempotency-Key header, both accepted: ">>
                        \o Itoa(r1.StatusCode) \o <<", ">> \o Itoa(r2.StatusCode),
              Timestamp |-> now ] >>
    ELSE <<>>

\* the tail of testIdempotencyCaseSensitivity
CaseFindings(ep, r2, baseKey, lowerKey, now) ==
    IF ~r2.IsNil /\ IsSuccessStatus(r2.StatusCode)
    THEN << [ Type |-> "Idempotency Key Case Sensitivity",
              Severity |-> "LOW",
              Title |-> "Idempotency Keys Not Case-Sensitive",
              Endpoint |-> ep.URL,
              Method |-> ep.Method,
              Proof |-> <<"Keys '">> \o baseKey \o <<"' and '">> \o lowerKey
                        \o <<"' treated as same">>,
              Timestamp |-> now ] >>
    ELSE <<>>

\* what a sequential test returns once its last call has returned
SeqFindings(v, ep, all, key, now) ==
    CASE v = "collision" -> CollisionFindings(ep, all[1], all[2], key, now)
      [] v = "expired" -> ExpiredFindings(ep, all[1], key, now)
      [] v = "missing" -> MissingKeyFindings(ep, all[1], all[2], now)
      [] v = "case" -> CaseFindings(ep, all[2], key, SecondKey(v, key), now)

SeqTests == {"collision", "expired", "missing", "case"}

\* the endpoints a sequential test is run on: one whose request builds and
\* one whose request does not
SeqEndpoints == {[Method |-> "POST", URL |-> UrlPay], [Method |-> "POST", URL |-> UrlBad]}

InitSeq ==
    /\ variant \in SeqTests
    /\ endpoint \in SeqEndpoints
    /\ session \in Sessions
    /\ mainpc = "enter"
    /\ sharedKey = <<>>
    /\ httpReq = <<>>
    /\ replies = <<>>
    /\ clock = 0
    /\ vulns = <<>>
    /\ panic = "none"
    /\ NoRound /\ NoEngine /\ NoSecondRun /\ NoSocket

\* the n-th request is built and handed to client.Do; "req, _ :=
\* http.NewRequest(...)" drops the error and the nil req is dereferenced by
\* req.Header.Set, which panics
SeqBuildAndSend(key) ==
    IF NewRequestOK(endpoint.Method, endpoint.URL)
    THEN LET built == SeqRequest(variant, endpoint, session, key, Len(httpReq) + 1)
         IN /\ httpReq' = Append(httpReq, built.req)
            /\ session' = built.session
            /\ mainpc' = "await"
            /\ panic' = panic
    ELSE /\ panic' = "nil pointer dereference"
         /\ UNCHANGED <<httpReq, session, mainpc>>

\* the test is entered: its key is made and its first request sent
SeqSendFirst ==
    /\ Running /\ variant \in SeqTests /\ mainpc = "enter"
    /\ \E now \in Clock :
          /\ now >= clock
          /\ clock' = now
          /\ sharedKey' = FirstKey(variant, now)
          /\ SeqBuildAndSend(FirstKey(variant, now))
    /\ UNCHANGED <<variant, endpoint, replies, vulns, roundVars, mu, engineVulns,
                   callers, delivered, vulnsAgain, wire, componentVars>>

\* the first call returns; the test returns no finding or goes on
SeqFirstAnswer ==
    /\ Running /\ variant \in SeqTests \ {"expired"} /\ mainpc = "await" /\ replies = <<>>
    /\ \E reply \in SeqReplies(variant) :
          /\ replies' = <<reply>>
          /\ mainpc' = IF FirstAccepted(variant, reply) THEN "second" ELSE "done"
    /\ UNCHANGED <<variant, endpoint, session, httpReq, sharedKey, clock, vulns, panic,
                   roundVars, mu, engineVulns, callers, delivered, vulnsAgain, wire, componentVars>>

\* after the sleep the second request is sent
SeqSendSecond ==
    /\ Running /\ variant \in SeqTests /\ mainpc = "second"
    /\ SeqBuildAndSend(SecondKey(variant, sharedKey))
    /\ UNCHANGED <<variant, endpoint, replies, sharedKey, clock, vulns, roundVars, mu,
                   engineVulns, callers, delivered, vulnsAgain, wire, componentVars>>

\* the last call returns and the test returns its findings
SeqLastAnswer ==
    /\ Running /\ variant \in SeqTests /\ mainpc = "await"
    /\ variant = "expired" \/ Len(replies) = 1
    /\ \E reply \in SeqReplies(variant), now \in Clock :
          /\ now >= clock
          /\ replies' = Append(replies, reply)
          /\ vulns' = SeqFindings(variant, endpoint, replies', sharedKey, now)
    /\ mainpc' = "done"
    /\ UNCHANGED <<variant, endpoint, session, httpReq, sharedKey, clock, panic,
                   roundVars, mu, engineVulns, callers, delivered, vulnsAgain, wire, componentVars>>

NextSeq == SeqSendFirst \/ SeqFirstAnswer \/ SeqSendSecond \/ SeqLastAnswer

SpecSeq == InitSeq /\ [][NextSeq]_vars

-----------------------------------------------------------------------------
(* analyzeRaceResults run twice on one result set, the second time on the  *)
(* results in any order of delivery                                        *)

TwiceStatuses == {200, 300}

\* result sets of the repeated run
TwiceSets ==
    UNION { { [i \in 1..n |-> [ID |-> i - 1, StatusCode |-> f[i][1], Duration |-> f[i][2]]] :
                f \in [1..n -> TwiceStatuses \X ClassifyDurations] } : n \in 0..MaxResults }

\* the results in the order of a permutation p of their positions
Reorder(results_, p) == [i \in 1..Len(results_) |-> results_[p[i]]]

InitTwice ==
    /\ variant = "twice"
    /\ endpoint = [Method |-> "POST", URL |-> UrlPay]
    /\ session = AnonymousSession
    /\ raceResults \in TwiceSets
    /\ mainpc = "first"
    /\ clock = 0
    /\ delivered = <<>>
    /\ vulnsAgain = <<>>
    /\ vulns = <<>>
    /\ sharedKey = <<>>
    /\ httpReq = <<>>
    /\ replies = <<>>
    /\ panic = "none"
    /\ wsLog = <<>> /\ concurrency = 0 /\ warmed = 0 /\ launched = 0 /\ wg = 0
    /\ barrierCloses = 0 /\ wpc = <<>> /\ req = <<>> /\ answer = <<>>
    /\ pending = <<>> /\ results = <<>> /\ resultsClosed = FALSE /\ templateMsg = 0
    /\ NoEngine /\ NoSocket

\* vulns = analyzeRaceResults(endpoint, raceResults), the clock read at `now`
AnalyzeFirst ==
    /\ variant = "twice" /\ mainpc = "first"
    /\ \E now \in Clock :
          /\ now >= clock
          /\ clock' = now
          /\ vulns' = analyzeRaceResults(endpoint, raceResults, now)
    /\ mainpc' = "again"
    /\ UNCHANGED <<variant, endpoint, session, raceResults, delivered, vulnsAgain,
                   sharedKey, httpReq, replies, panic, wsLog, concurrency, warmed,
                   launched, wg, barrierCloses, wpc, req, answer, pending, results,
                   resultsClosed, templateMsg, mu, engineVulns, callers, wire,
                   componentVars>>

\* the second call, later, on the same results delivered in some order
AnalyzeAgain ==
    /\ variant = "twice" /\ mainpc = "again"
    /\ \E now \in Clock, p \in Permutations(1..Len(raceResults)) :
          /\ now >= clock
          /\ clock' = now
          /\ delivered' = Reorder(raceResults, p)
          /\ vulnsAgain' = analyzeRaceResults(endpoint, Reorder(raceResults, p), now)
    /\ mainpc' = "done"
    /\ UNCHANGED <<variant, endpoint, session, raceResults, vulns,
                   sharedKey, httpReq, replies, panic, wsLog, concurrency, warmed,
                   launched, wg, barrierCloses, wpc, req, answer, pending, results,
                   resultsClosed, templateMsg, mu, engineVulns, callers, wire,
                   componentVars>>

NextTwice == AnalyzeFirst \/ AnalyzeAgain

SpecTwice == InitTwice /\ [][NextTwice]_vars

-----------------------------------------------------------------------------
(* Engine.addVulnerabilities called by several goroutines (AddVulnerabilities *)
(* is the same call, exported)                                                *)

\* goroutines calling addVulnerabilities at once
MaxCallers == 3

\* findings in one batch
MaxBatch == 2

\* the batch of caller c: its findings, told apart by caller and position
BatchOf(c, n) == [k \in 1..n |-> [Caller |-> c, Index |-> k]]

EngineCallers == DOMAIN callers

MutexFreeAlways == TRUE

\* e.mu.Lock() returns: nobody holds the mutex
MutexFree == mu = -1

InitEngine ==
    /\ variant = "engine"
    /\ endpoint = [Method |-> "POST", URL |-> UrlPay]
    /\ session = AnonymousSession
    /\ mainpc = "done"
    /\ mu = -1
    /\ engineVulns = <<>>
    /\ \E n \in 1..MaxCallers :
          callers \in { [c \in 1..n |-> [pc |-> "call", batch |-> BatchOf(c, len[c]), local |-> <<>>]] :
                          len \in [1..n -> 0..MaxBatch] }
    /\ sharedKey = <<>>
    /\ httpReq = <<>>
    /\ vulns = <<>>
    /\ panic = "none"
    /\ NoRound /\ NoSequentialTest /\ NoSecondRun /\ NoSocket

\* what addVulnerabilities leaves alone
engineFrame == <<variant, endpoint, session, mainpc, sharedKey, httpReq, vulns, panic,
                 roundVars, replies, clock, delivered, vulnsAgain, wire,
                 componentVars>>

\* e.mu.Lock()
EngineLock(c) ==
    /\ callers[c].pc = "call" /\ MutexFree
    /\ mu' = c
    /\ callers' = [callers EXCEPT ![c].pc = "read"]
    /\ UNCHANGED <<engineVulns, engineFrame>>

\* append(e.Vulns, vulns...) reads the slice e.Vulns
EngineRead(c) ==
    /\ callers[c].pc = "read"
    /\ callers' = [callers EXCEPT ![c].local = engineVulns, ![c].pc = "store"]
    /\ UNCHANGED <<mu, engineVulns, engineFrame>>

\* "e.Vulns = ..." stores the slice read with the batch appended
EngineStore(c) ==
    /\ callers[c].pc = "store"
    /\ engineVulns' = callers[c].local \o callers[c].batch
    /\ callers' = [callers EXCEPT ![c].pc = "unlock"]
    /\ UNCHANGED <<mu, engineFrame>>

\* the deferred e.mu.Unlock(), and the call returns
EngineUnlock(c) ==
    /\ callers[c].pc = "unlock"
    /\ mu' = -1
    /\ callers' = [callers EXCEPT ![c].pc = "done"]
    /\ UNCHANGED <<engineVulns, engineFrame>>

NextEngine ==
    \/ \E c \in EngineCallers : EngineLock(c)
    \/ \E c \in EngineCallers : EngineRead(c)
    \/ \E c \in EngineCallers : EngineStore(c)
    \/ \E c \in EngineCallers : EngineUnlock(c)

SpecEngine == InitEngine /\ [][NextEngine]_vars

-----------------------------------------------------------------------------
(* Every test that reads the Session and the Endpoint: the dispatch rounds *)
(* and the sequential idempotency tests                                    *)

InitCore == InitRound \/ InitSeq

NextCore == Next \/ NextSeq

SpecCore == InitCore /\ [][NextCore]_vars

-----------------------------------------------------------------------------
(* The 2-argument TestRaceCondition after its enhanced round: the           *)
(* multi-endpoint race and the inference of the confirmation endpoints      *)

\* the literal "patterns" map of inferConfirmationEndpoints, in the order written
Patterns ==
    << [from |-> <<"/", "v", "a", "l", "i", "d", "a", "t", "e">>, to |-> <<"/", "c", "o", "n", "f", "i", "r", "m">>],
       [from |-> <<"/", "c", "h", "e", "c", "k">>, to |-> <<"/", "e", "x", "e", "c", "u", "t", "e">>],
       [from |-> <<"/", "r", "e", "s", "e", "r", "v", "e">>, to |-> <<"/", "c", "o", "m", "m", "i", "t">>],
       [from |-> <<"/", "p", "r", "e", "p", "a", "r", "e">>, to |-> <<"/", "c", "o", "m", "p", "l", "e", "t", "e">>],
       [from |-> <<"/", "v", "e", "r", "i", "f", "y">>, to |-> <<"/", "p", "r", "o", "c", "e", "s", "s">>] >>

\* "for from, to := range patterns": Go visits the entries of a map in an
\* order of its choosing, a new one at each loop
PatternOrders == Permutations(1..Len(Patterns))

\* findSubstring: substr occurs in s at some position
findSubstring(s, substr) ==
    \E i \in 0..(Len(s) - Len(substr)) : SubSeq(s, i + 1, i + Len(substr)) = substr

contains(s, substr) ==
    Len(s) >= Len(substr) /\ (s = substr \/ Len(substr) = 0 \/ findSubstring(s, substr))

\* replace: left to right, every occurrence of old gives new, any other
\* character is copied
RECURSIVE replace(_, _, _)
replace(s, old, new) ==
    IF s = <<>> THEN <<>>
    ELSE IF Len(old) <= Len(s) /\ SubSeq(s, 1, Len(old)) = old
         THEN new \o replace(SubSeq(s, Len(old) + 1, Len(s)), old, new)
         ELSE <<Head(s)>> \o replace(Tail(s), old, new)

\* the loop of inferConfirmationEndpoints from the i-th visited entry on
RECURSIVE InferFrom(_, _, _)
InferFrom(validateURL, order, i) ==
    IF i > Len(Patterns) THEN <<>>
    ELSE LET from == Patterns[order[i]].from
             to == Patterns[order[i]].to
         IN (IF contains(validateURL, from)
             THEN <<replace(validateURL, from, to)>> ELSE <<>>)
            \o InferFrom(validateURL, order, i + 1)

inferConfirmationEndpoints(validateURL, order) == InferFrom(validateURL, order, 1)

\* a multi-endpoint race that reports the pair it raced
testValidateConfirmRaceReports(validateURL, confirmURL, s) ==
    <<[Type |-> "Race Condition", Endpoint |-> confirmURL]>>

\* testValidateConfirmRace: "return nil"; <<>> stands for the nil pointer
testValidateConfirmRace(validateURL, confirmURL, s) == <<>>

\* the loop of testMultiEndpointRace: the non-nil results, in order
RECURSIVE MultiFrom(_, _, _, _)
MultiFrom(ep, confirmURLs, s, i) ==
    IF i > Len(confirmURLs) THEN <<>>
    ELSE testValidateConfirmRace(ep.URL, confirmURLs[i], s)
         \o MultiFrom(ep, confirmURLs, s, i + 1)

testMultiEndpointRace(ep, confirmURLs, s) == MultiFrom(ep, confirmURLs, s, 1)

\* path segments: the five sources and two that are none of them
Segments ==
    { <<"/", "v", "a", "l", "i", "d", "a", "t", "e">>, <<"/", "c", "h", "e", "c", "k">>, <<"/", "r", "e", "s", "e", "r", "v", "e">>, <<"/", "p", "r", "e", "p", "a", "r", "e">>, <<"/", "v", "e", "r", "i", "f", "y">>, <<"/", "c", "h", "e", "c", "k", "o", "u", "t">>, <<"/", "p", "a", "y">> }

BaseURL == <<"/", "a", "p", "i">>

\* endpoint URLs of one and of two segments under the base
InferURLs ==
    { BaseURL \o a : a \in Segments } \cup { BaseURL \o a \o b : a \in Segments, b \in Segments }

\* what the enhanced round of the test collected
InferResults ==
    { <<>>,
      <<[ID |-> 0, StatusCode |-> 200, Duration |-> 3], [ID |-> 1, StatusCode |-> 200, Duration |-> 8]>> }

InitInfer ==
    /\ variant = "infer"
    /\ endpoint \in { [Method |-> "POST", URL |-> u] : u \in InferURLs }
    /\ session = AnonymousSession
    /\ raceResults \in InferResults
    /\ mainpc = "enhanced"
    /\ vulns = <<>>
    /\ NoInference
    /\ wsLog = <<>> /\ concurrency = 0 /\ warmed = 0 /\ launched = 0 /\ wg = 0
    /\ barrierCloses = 0 /\ wpc = <<>> /\ req = <<>> /\ answer = <<>>
    /\ pending = <<>> /\ results = <<>> /\ resultsClosed = FALSE /\ templateMsg = 0
    /\ sharedKey = <<>> /\ httpReq = <<>> /\ panic = "none"
    /\ NoSequentialTest /\ NoEngine /\ NoSecondRun
    /\ wire = <<>> /\ NoInterceptor /\ NoProbe /\ NoBackoff /\ NoBrute

inferFrame == <<variant, endpoint, session, roundVars, sharedKey, httpReq, panic,
                replies, clock, mu, engineVulns, callers, delivered, vulnsAgain,
                wire, interceptorVars, probeVars, backoffVars, bruteVars>>

\* TestRaceCondition/2: vulns = append(vulns, testRaceConditionEnhanced(...)...)
EnhancedReturned ==
    /\ variant = "infer" /\ mainpc = "enhanced"
    /\ \E now \in Clock : vulns' = <<>> \o analyzeRaceResults(endpoint, raceResults, now)
    /\ mainpc' = "multi"
    /\ UNCHANGED <<inferFrame, inferVars>>

\* TestRaceCondition/2: vulns = append(vulns, testMultiEndpointRace(...)...)
MultiEndpointRace ==
    /\ variant = "infer" /\ mainpc = "multi"
    /\ \E order \in PatternOrders :
          /\ confirmEndpoints' = inferConfirmationEndpoints(endpoint.URL, order)
          /\ multiVulns' = testMultiEndpointRace(endpoint, confirmEndpoints', session)
    /\ vulns' = vulns \o multiVulns'
    /\ mainpc' = "returned"
    /\ UNCHANGED <<inferFrame, confirmAgain>>

\* inferConfirmationEndpoints called once more on the same URL
InferAgain ==
    /\ variant = "infer" /\ mainpc = "returned"
    /\ \E order \in PatternOrders :
          confirmAgain' = inferConfirmationEndpoints(endpoint.URL, order)
    /\ mainpc' = "again"
    /\ UNCHANGED <<inferFrame, vulns, confirmEndpoints, multiVulns>>

NextInfer == EnhancedReturned \/ MultiEndpointRace \/ InferAgain

SpecInfer == InitInfer /\ [][NextInfer]_vars

-----------------------------------------------------------------------------
(* JSON texts of the WebSocket messages: character sequences; the objects   *)
(* are flat, their values strings or literals (numbers, true, false, null)  *)

DoubleQuote == "\""

\* the position of the first character of s at or after i that is in cs, 0
\* when there is none
IndexFrom(s, cs, i) ==
    IF \E j \in i..Len(s) : s[j] \in cs
    THEN CHOOSE j \in i..Len(s) : s[j] \in cs /\ \A k \in i..(j - 1) : s[k] \notin cs
    ELSE 0

NumberChars == {"0", "1", "2", "3", "4", "5", "6", "7", "8", "9", "-", "."}

JsonTrue == <<"t", "r", "u", "e">>
JsonFalse == <<"f", "a", "l", "s", "e">>

\* a literal that encoding/json accepts as a value
JsonLiteral(text) ==
    \/ text \in {JsonTrue, JsonFalse}
    \/ /\ text # <<>> /\ \A i \in 1..Len(text) : text[i] \in NumberChars
       /\ text[Len(text)] \notin {"-", "."}

\* a number decoded into float64 and written again: the shortest text, so a
\* fraction of zero is dropped (5.0 gives 5)
FormatFloat(text) ==
    IF Len(text) > 2 /\ SubSeq(text, Len(text) - 1, Len(text)) = <<".", "0">>
    THEN SubSeq(text, 1, Len(text) - 2)
    ELSE text

\* a decoded value: a string, or the text of a literal
JsonString(text) == [IsString |-> TRUE, Text |-> text]
JsonNumber(text) == [IsString |-> FALSE, Text |-> FormatFloat(text)]

JsonFail == [ok |-> FALSE, members |-> {}]

\* the members of an object from position i (the opening quote of a key) on:
\* the set of its <<key, value>> pairs
RECURSIVE JsonMembers(_, _)
JsonMembers(s, i) ==
    IF i > Len(s) \/ s[i] # DoubleQuote THEN JsonFail
    ELSE LET keyEnd == IndexFrom(s, {DoubleQuote}, i + 1)
         IN IF keyEnd = 0 \/ keyEnd + 2 > Len(s) \/ s[keyEnd + 1] # ":" THEN JsonFail
            ELSE LET key == SubSeq(s, i + 1, keyEnd - 1)
                     v == keyEnd + 2
                     isStr == s[v] = DoubleQuote
                     strEnd == IndexFrom(s, {DoubleQuote}, v + 1)
                     stop == IF isStr THEN (IF strEnd = 0 THEN 0 ELSE strEnd + 1)
                             ELSE IndexFrom(s, {",", "}"}, v)
                 IN IF stop = 0 \/ stop > Len(s) THEN JsonFail
                    ELSE IF ~isStr /\ ~JsonLiteral(SubSeq(s, v, stop - 1)) THEN JsonFail
                    ELSE LET val == IF isStr THEN JsonString(SubSeq(s, v + 1, strEnd - 1))
                                    ELSE JsonNumber(SubSeq(s, v, stop - 1))
                             rest == IF s[stop] = "," THEN JsonMembers(s, stop + 1)
                                     ELSE [ok |-> s[stop] = "}" /\ stop = Len(s), members |-> {}]
                         IN [ok |-> rest.ok,
                             members |-> {<<key, val>>}
                                         \cup {m \in rest.members : m[1] # key}]

\* json.Unmarshal(data, &parsed) into a map[string]interface{}: whether it
\* succeeds, and the map
Unmarshal(data) ==
    IF Len(data) < 2 \/ data[1] # "{" THEN [ok |-> FALSE, parsed |-> <<>>]
    ELSE LET r == IF Len(data) = 2 THEN [ok |-> data[2] = "}", members |-> {}]
                  ELSE JsonMembers(data, 2)
         IN IF r.ok
            THEN [ok |-> TRUE,
                  parsed |-> [k \in {m[1] : m \in r.members} |->
                                 (CHOOSE m \in r.members : m[1] = k)[2]]]
            ELSE [ok |-> FALSE, parsed |-> <<>>]

Alphabet == <<"a", "b", "c", "d", "e", "f", "g", "h", "i", "j", "k", "l", "m", "n", "o", "p", "q", "r", "s", "t", "u", "v", "w", "x", "y", "z">>

Rank(c) == IF \E i \in 1..Len(Alphabet) : Alphabet[i] = c
           THEN CHOOSE i \in 1..Len(Alphabet) : Alphabet[i] = c
           ELSE 0

\* byte order of two keys
RECURSIVE KeyLess(_, _)
KeyLess(a, b) ==
    IF a = <<>> THEN b # <<>>
    ELSE IF b = <<>> THEN FALSE
    ELSE IF Head(a) = Head(b) THEN KeyLess(Tail(a), Tail(b))
    ELSE Rank(Head(a)) < Rank(Head(b))

JsonValueText(val) ==
    IF val.IsString THEN <<DoubleQuote>> \o val.Text \o <<DoubleQuote>> ELSE val.Text

\* the members of the map whose keys are in keys, in key order, comma separated
RECURSIVE MarshalMembers(_, _)
MarshalMembers(map, keys) ==
    IF keys = {} THEN <<>>
    ELSE LET k == CHOOSE x \in keys : \A y \in keys \ {x} : KeyLess(x, y)
         IN <<DoubleQuote>> \o k \o <<DoubleQuote, ":">> \o JsonValueText(map[k])
            \o (IF keys = {k} THEN <<>> ELSE <<",">> \o MarshalMembers(map, keys \ {k}))

\* json.Marshal of a map[string]interface{}: the keys sorted
Marshal(map) == <<"{">> \o MarshalMembers(map, DOMAIN map) \o <<"}">>

-----------------------------------------------------------------------------
(* The interceptor on a live socket and the sequential WebSocket tests,     *)
(* TestWebSocketReplay and TestWebSocketAmountManipulation                  *)

\* largest number of messages the server sends while a test runs
MaxServerMsgs == 1

\* addMessage: the log entry made of a polled slot; Parsed is set when the
\* data is a JSON object.  At is the position on the wire of the message the
\* entry was made of.
addMessage(direction, slot) ==
    LET u == Unmarshal(slot.data)
    IN [Direction |-> direction, Data |-> slot.data,
        HasParsed |-> u.ok,
        ParsedKeys |-> IF u.ok THEN DOMAIN u.parsed ELSE {},
        Parsed |-> u.parsed,
        At |-> slot.at]

KeyStatus == <<"s", "t", "a", "t", "u", "s">>
KeySuccess == <<"s", "u", "c", "c", "e", "s", "s">>

SuccessStatuses == { <<"s", "u", "c", "c", "e", "s", "s">>, <<"o", "k">>, <<"c", "o", "m", "p", "l", "e", "t", "e", "d">>, <<"p", "a", "i", "d">>, <<"c", "o", "n", "f", "i", "r", "m", "e", "d">> }
SuccessKeywords == { <<"s", "u", "c", "c", "e", "s", "s">>, <<"c", "o", "m", "p", "l", "e", "t", "e", "d">>, <<"c", "o", "n", "f", "i", "r", "m", "e", "d">> }

isSuccessResponse(msg) ==
    \/ /\ msg.HasParsed
       /\ \/ /\ KeyStatus \in DOMAIN msg.Parsed
             /\ msg.Parsed[KeyStatus].IsString
             /\ msg.Parsed[KeyStatus].Text \in SuccessStatuses
          \/ /\ KeySuccess \in DOMAIN msg.Parsed
             /\ ~msg.Parsed[KeySuccess].IsString
             /\ msg.Parsed[KeySuccess].Text = JsonTrue
    \/ \E kw \in SuccessKeywords : contains(msg.Data, kw)

\* amountFields, in the order the test tries them
AmountFieldsReversed == << <<"v", "a", "l", "u", "e">>, <<"t", "o", "t", "a", "l">>, <<"p", "r", "i", "c", "e">>, <<"a", "m", "o", "u", "n", "t">> >>

AmountFields == << <<"a", "m", "o", "u", "n", "t">>, <<"p", "r", "i", "c", "e">>, <<"t", "o", "t", "a", "l">>, <<"v", "a", "l", "u", "e">> >>

\* testAmounts: -100.0, 0.0, 0.01 and the string "0", as json.Marshal writes them
TestAmounts ==
    << JsonNumber(<<"-", "1", "0", "0", ".", "0">>), JsonNumber(<<"0">>), JsonNumber(<<"0", ".", "0", "1">>), JsonString(<<"0">>) >>

\* the first of amountFields that is a key of the message, 0 when none is
FirstField(msg) ==
    IF \E i \in 1..Len(AmountFields) : AmountFields[i] \in DOMAIN msg.Parsed
    THEN CHOOSE i \in 1..Len(AmountFields) :
            /\ AmountFields[i] \in DOMAIN msg.Parsed
            /\ \A j \in 1..(i - 1) : AmountFields[j] \notin DOMAIN msg.Parsed
    ELSE 0

\* cloneMap: a new map with the entries of the original
cloneMap(map) == [fresh |-> TRUE, entries |-> map]

\* the messages a test sends something for
Probed(v, msg) ==
    IF v = "replay" THEN msg.Direction = "sent"
    ELSE msg.Direction = "sent" /\ msg.HasParsed /\ FirstField(msg) # 0

\* the first message after position m that the test sends something for,
\* Len + 1 when there is none
NextProbed(v, msgs, m) ==
    IF \E i \in (m + 1)..Len(msgs) : Probed(v, msgs[i])
    THEN CHOOSE i \in (m + 1)..Len(msgs) :
            Probed(v, msgs[i]) /\ \A j \in (m + 1)..(i - 1) : ~Probed(v, msgs[j])
    ELSE Len(msgs) + 1

\* the loop position after a send: the replay test goes to the next message;
\* the amount test goes to the next message after a finding ("break") and
\* after the last test amount, to the next test amount otherwise
NextCursor(v, msgs, c, found) ==
    IF v = "amount" /\ ~found /\ c.a < Len(TestAmounts)
    THEN [m |-> c.m, a |-> c.a + 1]
    ELSE [m |-> NextProbed(v, msgs, c.m), a |-> 1]

\* what the server sends: an acceptance and a refusal
ServerTexts == { <<"{", "\"", "s", "t", "a", "t", "u", "s", "\"", ":", "\"", "o", "k", "\"", "}">>, <<"{", "\"", "s", "t", "a", "t", "u", "s", "\"", ":", "\"", "f", "a", "i", "l", "e", "d", "\"", "}">> }

\* what was on the socket before the test: the log is made of it
WireStaleSuccess ==
    << [Direction |-> "sent", Data |-> <<"{", "\"", "a", "m", "o", "u", "n", "t", "\"", ":", "5", "}">>, Answers |-> 0],
       [Direction |-> "received", Data |-> <<"{", "\"", "s", "t", "a", "t", "u", "s", "\"", ":", "\"", "o", "k", "\"", "}">>, Answers |-> 1] >>

WireTwoSent ==
    << [Direction |-> "sent", Data |-> <<"{", "\"", "p", "a", "y", "m", "e", "n", "t", "\"", ":", "\"", "p", "1", "\"", ",", "\"", "p", "r", "i", "c", "e", "\"", ":", "5", ".", "0", ",", "\"", "t", "o", "t", "a", "l", "\"", ":", "7", "}">>, Answers |-> 0],
       [Direction |-> "sent", Data |-> <<"p", "a", "y", "1">>, Answers |-> 0] >>

\* the wires a test is run on: the replay test on both, the amount test, which
\* sends up to four messages for a message, on the second
WireBefore(v) == IF v = "replay" THEN {WireStaleSuccess, WireTwoSent} ELSE {WireTwoSent}

InitWS ==
    /\ variant \in {"replay", "amount"}
    /\ wire \in WireBefore(variant)
    /\ wsLog = [i \in 1..Len(wire) |->
                   addMessage(wire[i].Direction, [data |-> wire[i].Data, at |-> i])]
    /\ mainpc = "start"
    /\ vulns = <<>>
    /\ NoInterceptor /\ NoProbe /\ NoInference /\ NoBackoff /\ NoBrute
    /\ endpoint = [Method |-> "POST", URL |-> UrlPay]
    /\ session = AnonymousSession
    /\ concurrency = 0 /\ warmed = 0 /\ launched = 0 /\ wg = 0
    /\ barrierCloses = 0 /\ wpc = <<>> /\ req = <<>> /\ answer = <<>>
    /\ pending = <<>> /\ results = <<>> /\ resultsClosed = FALSE
    /\ raceResults = <<>> /\ templateMsg = 0
    /\ sharedKey = <<>> /\ httpReq = <<>> /\ panic = "none"
    /\ NoSequentialTest /\ NoEngine /\ NoSecondRun

wsFrame == <<variant, endpoint, session, concurrency, warmed, launched, wg, barrierCloses,
             wpc, req, answer, pending, results, resultsClosed, raceResults, templateMsg,
             sharedKey, httpReq, panic, replies, clock, mu, engineVulns, callers,
             delivered, vulnsAgain, inferVars, backoffVars, bruteVars>>

\* the positions on the wire of what the server sent since the test began
\* (each wire before the test holds WireBeforeLen messages)
WireBeforeLen == 2
ServerSent == {i \in (WireBeforeLen + 1)..Len(wire) : wire[i].Direction = "received"}

(* ---- the page ---- *)

\* the positions on the wire of the last two messages sent
RecentSends ==
    {i \in 1..Len(wire) :
        /\ wire[i].Direction = "sent"
        /\ Cardinality({j \in (i + 1)..Len(wire) : wire[j].Direction = "sent"}) < 2}

\* a message of the server arrives: the 'message' listener overwrites
\* window._lastWSRecv.  The message answers one of the last two messages sent.
ServerMessage ==
    /\ mainpc # "done"
    /\ Cardinality(ServerSent) < MaxServerMsgs
    /\ \E data \in ServerTexts :
          \E to \in RecentSends :
             /\ wire' = Append(wire, [Direction |-> "received", Data |-> data, Answers |-> to])
             /\ lastWSRecv' = <<[data |-> data, at |-> Len(wire')]>>
    /\ UNCHANGED <<wsFrame, wsLog, mainpc, vulns, lastWSSend, probeVars>>

(* ---- pollMessages ---- *)

\* a tick, first Evaluate: window._lastWSSend is read and set to null
PollSent ==
    /\ mainpc # "done" /\ pollpc = "sent"
    /\ wsLog' = IF lastWSSend = <<>> THEN wsLog
                ELSE Append(wsLog, addMessage("sent", lastWSSend[1]))
    /\ lastWSSend' = <<>>
    /\ pollpc' = "recv"
    /\ pollsSinceSend' = IF pollsSinceSend = 0 THEN 1 ELSE pollsSinceSend
    /\ UNCHANGED <<wsFrame, wire, mainpc, vulns, lastWSRecv, payMsgs, cursor>>

\* second Evaluate: window._lastWSRecv is read and set to null
PollRecv ==
    /\ mainpc # "done" /\ pollpc = "recv"
    /\ wsLog' = IF lastWSRecv = <<>> THEN wsLog
                ELSE Append(wsLog, addMessage("received", lastWSRecv[1]))
    /\ lastWSRecv' = <<>>
    /\ pollpc' = "sent"
    /\ pollsSinceSend' = IF pollsSinceSend = 1 THEN 2 ELSE pollsSinceSend
    /\ UNCHANGED <<wsFrame, wire, mainpc, vulns, lastWSSend, payMsgs, cursor>>

(* ---- the test ---- *)

\* payMsgs := wsi.GetPaymentMessages(), the loop entered
ProbeStart ==
    /\ variant \in {"replay", "amount"} /\ mainpc = "start"
    /\ payMsgs' = GetPaymentMessages(wsLog)
    /\ cursor' = [m |-> NextProbed(variant, payMsgs', 0), a |-> 1]
    /\ mainpc' = IF cursor'.m > Len(payMsgs') THEN "done" ELSE "send"
    /\ UNCHANGED <<wsFrame, wsLog, wire, vulns, interceptorVars, pollpc, pollsSinceSend>>

\* the text the test sends at its loop position, and what the write
\* "manipulated[field] = testAmount" makes of the map of the captured message
ProbeText(v, msg, a) ==
    IF v = "replay" THEN [data |-> msg.Data, captured |-> msg.Parsed]
    ELSE LET clone == cloneMap(msg.Parsed)
             manipulated == [clone.entries EXCEPT ![AmountFields[FirstField(msg)]] = TestAmounts[a]]
         IN [data |-> Marshal(manipulated),
             captured |-> IF clone.fresh THEN msg.Parsed ELSE manipulated]

\* sendWSMessage; a send that reports false goes to the next loop position
ProbeSend ==
    /\ mainpc = "send"
    /\ \E up \in BOOLEAN :
          LET msg == payMsgs[cursor.m]
              probe == ProbeText(variant, msg, cursor.a)
              sent == sendWSMessage(probe.data, up)
          IN /\ wire' = wire \o sent.put
             /\ lastWSSend' = IF sent.put = <<>> THEN lastWSSend
                              ELSE <<[data |-> sent.put[1].Data, at |-> Len(wire')]>>
             /\ payMsgs' = [payMsgs EXCEPT ![cursor.m].Parsed = probe.captured]
             /\ wsLog' = [i \in 1..Len(wsLog) |->
                             IF wsLog[i].At = msg.At
                             THEN [wsLog[i] EXCEPT !.Parsed = probe.captured]
                             ELSE wsLog[i]]
             /\ IF sent.success
                THEN /\ mainpc' = "wait" /\ cursor' = cursor
                     /\ pollsSinceSend' = 0
                ELSE /\ cursor' = NextCursor(variant, payMsgs, cursor, FALSE)
                     /\ mainpc' = IF cursor'.m > Len(payMsgs) THEN "done" ELSE "send"
                     /\ pollsSinceSend' = pollsSinceSend
    /\ UNCHANGED <<wsFrame, vulns, lastWSRecv, pollpc>>

\* the finding of a test for the message it probed
ProbeFinding(v, msg, a, now) ==
    IF v = "replay"
    THEN [Type |-> "WebSocket Replay Attack", Severity |-> "HIGH",
          Title |-> <<"WebSocket Message Replay Vulnerability">>,
          Description |-> "Server accepted replayed WebSocket message",
          Proof |-> <<"Original: ">> \o msg.Data,
          Timestamp |-> now]
    ELSE LET field == AmountFields[FirstField(msg)]
             manipulated == [msg.Parsed EXCEPT ![field] = TestAmounts[a]]
         IN [Type |-> "WebSocket Amount Manipulation", Severity |-> "CRITICAL",
             Title |-> <<"Amount Manipulation Accepted (">> \o msg.Parsed[field].Text
                       \o <<" -> ">> \o TestAmounts[a].Text \o <<")">>,
             Description |-> "Server accepted manipulated amount via WebSocket",
             Proof |-> <<"Manipulated message: ">> \o Marshal(manipulated),
             Timestamp |-> now]

\* GetMessages: a new slice with the entries of the log
GetMessages(log) == [i \in 1..Len(log) |-> log[i]]

\* after time.Sleep(1 * time.Second), which spans a whole tick of the 200 ms
\* poller: newMsgs := wsi.GetMessages(); the last entry decides
ProbeCheck ==
    /\ mainpc = "wait" /\ pollsSinceSend = 2
    /\ LET newMsgs == GetMessages(wsLog)
           lastMsg == newMsgs[Len(newMsgs)]
           found == lastMsg.Direction = "received" /\ isSuccessResponse(lastMsg)
       IN /\ IF found
             THEN \E now \in Clock :
                     vulns' = Append(vulns, ProbeFinding(variant, payMsgs[cursor.m],
                                                         cursor.a, now))
             ELSE vulns' = vulns
          /\ cursor' = NextCursor(variant, payMsgs, cursor, found)
    /\ mainpc' = IF cursor'.m > Len(payMsgs) THEN "done" ELSE "send"
    /\ UNCHANGED <<wsFrame, wsLog, wire, interceptorVars, payMsgs, pollpc, pollsSinceSend>>

NextWS == ServerMessage \/ PollSent \/ PollRecv \/ ProbeStart \/ ProbeSend \/ ProbeCheck

SpecWS == InitWS /\ [][NextWS]_vars

-----------------------------------------------------------------------------
(* The interceptor under the traffic of the page: messages are sent (by the *)
(* page or by a test harness) and received at any moment between the polls  *)

\* largest number of messages on the socket
MaxTraffic == 3

\* what is sent on the socket
SentTexts == { <<"p", "a", "y", "1">>, <<"{", "\"", "a", "m", "o", "u", "n", "t", "\"", ":", "5", "}">> }

InitIntercept ==
    /\ variant = "intercept"
    /\ mainpc = "polling"
    /\ wire = <<>>
    /\ wsLog = <<>>
    /\ vulns = <<>>
    /\ NoInterceptor /\ NoProbe /\ NoInference /\ NoBackoff /\ NoBrute
    /\ endpoint = [Method |-> "POST", URL |-> UrlPay]
    /\ session = AnonymousSession
    /\ concurrency = 0 /\ warmed = 0 /\ launched = 0 /\ wg = 0
    /\ barrierCloses = 0 /\ wpc = <<>> /\ req = <<>> /\ answer = <<>>
    /\ pending = <<>> /\ results = <<>> /\ resultsClosed = FALSE
    /\ raceResults = <<>> /\ templateMsg = 0
    /\ sharedKey = <<>> /\ httpReq = <<>> /\ panic = "none"
    /\ NoSequentialTest /\ NoEngine /\ NoSecondRun

\* ws.send through the wrapper: window._lastWSSend is overwritten
SocketSend ==
    /\ variant = "intercept" /\ Len(wire) < MaxTraffic
    /\ \E data \in SentTexts :
          /\ wire' = Append(wire, [Direction |-> "sent", Data |-> data, Answers |-> 0])
          /\ lastWSSend' = <<[data |-> data, at |-> Len(wire')]>>
    /\ UNCHANGED <<wsFrame, wsLog, mainpc, vulns, lastWSRecv, probeVars>>

\* the 'message' listener: window._lastWSRecv is overwritten
SocketReceive ==
    /\ variant = "intercept" /\ Len(wire) < MaxTraffic
    /\ \E data \in ServerTexts :
          /\ wire' = Append(wire, [Direction |-> "received", Data |-> data, Answers |-> 0])
          /\ lastWSRecv' = <<[data |-> data, at |-> Len(wire')]>>
    /\ UNCHANGED <<wsFrame, wsLog, mainpc, vulns, lastWSSend, probeVars>>

NextIntercept == SocketSend \/ SocketReceive \/ PollSent \/ PollRecv

SpecIntercept == InitIntercept /\ [][NextIntercept]_vars

-----------------------------------------------------------------------------
(* The adaptive back-off: RateLimiter.RecordResponse and                    *)
(* EvasionContext.GetDelay.  A time.Duration is an int64 of nanoseconds.    *)

\* longest run of rate-limited responses
MaxStreak == 66

\* the int64 of a small non-negative number
FromInt(n) == [i \in 1..Width |-> IF i <= 31 THEN (n \div (2 ^ (i - 1))) % 2 ELSE 0]

\* "1 << uint(n)" on an int64: the bit n, nothing when n is 64 or more
ShiftOne(n) == [i \in 1..Width |-> IF i = n + 1 THEN 1 ELSE 0]

\* b shifted left by n bits, the bits beyond the width lost
ShiftLeft(b, n) == [i \in 1..Width |-> IF i > n THEN b[i - n] ELSE 0]

\* a + b from bit i on with the carry from below; the last carry is lost
RECURSIVE AddFrom(_, _, _, _)
AddFrom(a, b, i, carry) ==
    IF i > Width THEN <<>>
    ELSE LET s == a[i] + b[i] + carry
         IN <<s % 2>> \o AddFrom(a, b, i + 1, s \div 2)

Add64(a, b) == AddFrom(a, b, 1, 0)

\* a * b, wrapping around at 64 bits
RECURSIVE MulFrom(_, _, _)
MulFrom(a, b, i) ==
    IF i > Width THEN Zero64
    ELSE IF a[i] = 1 THEN Add64(ShiftLeft(b, i - 1), MulFrom(a, b, i + 1))
         ELSE MulFrom(a, b, i + 1)

Mul64(a, b) == MulFrom(a, b, 1)

\* a > b, both signed (two's complement)
Greater64(a, b) ==
    IF a[Width] # b[Width] THEN b[Width] = 1
    ELSE \E i \in 1..Width :
            a[i] = 1 /\ b[i] = 0 /\ \A j \in (i + 1)..Width : a[j] = b[j]

\* time.Second, in nanoseconds
Second == FromInt(1000000000)

Seconds(n) == Mul64(FromInt(n), Second)

\* "time.Duration(1<<uint(count-1)) * time.Second", and 8 * time.Second when
\* that is more
Backoff(count) ==
    LET d == Mul64(ShiftOne(count - 1), Second)
    IN IF Greater64(d, Seconds(8)) THEN Seconds(8) ELSE d

\* RateLimiter.RecordResponse on the state of the endpoint
RecordResponse(state, statusCode) ==
    IF statusCode = 429 \/ statusCode = 403
    THEN [RateLimited |-> state.RateLimited + 1,
          LastBackoff |-> Backoff(state.RateLimited + 1),
          ShouldPause |-> IF state.RateLimited + 1 >= 3 THEN TRUE ELSE state.ShouldPause]
    ELSE [RateLimited |-> 0, LastBackoff |-> Zero64, ShouldPause |-> state.ShouldPause]

\* EvasionContext.GetDelay
GetDelay(ec) == IF ec.RateLimited = 0 THEN Zero64 ELSE Backoff(ec.RateLimited)

ResponseStatuses == {200, 403, 429}

InitBackoff ==
    /\ variant \in {"limiter", "evasion"}
    /\ mainpc = "scanning"
    /\ NoBackoff
    /\ vulns = <<>>
    /\ endpoint = [Method |-> "POST", URL |-> UrlPay]
    /\ session = AnonymousSession
    /\ sharedKey = <<>> /\ httpReq = <<>> /\ panic = "none"
    /\ NoRound /\ NoSequentialTest /\ NoEngine /\ NoSecondRun
    /\ wire = <<>> /\ NoInterceptor /\ NoInference /\ NoProbe /\ NoBrute

backoffFrame == <<variant, endpoint, session, mainpc, vulns, roundVars, sharedKey, httpReq,
                  panic, replies, clock, mu, engineVulns, callers, delivered, vulnsAgain,
                  wire, interceptorVars, inferVars, probeVars, bruteVars>>

\* rl.RecordResponse(endpoint, statusCode)
LimiterRecord ==
    /\ variant = "limiter" /\ limiter.RateLimited < MaxStreak
    /\ \E statusCode \in ResponseStatuses :
          limiter' = RecordResponse(limiter, statusCode)
    /\ UNCHANGED <<backoffFrame, evasion, delay>>

\* rl.Wait(endpoint) on a paused endpoint: the long pause, then the flag is cleared
LimiterWait ==
    /\ variant = "limiter" /\ limiter.ShouldPause
    /\ limiter' = [limiter EXCEPT !.ShouldPause = FALSE]
    /\ UNCHANGED <<backoffFrame, evasion, delay>>

\* ec.CheckRateLimiting(statusCode)
CheckRateLimiting ==
    /\ variant = "evasion" /\ evasion.RateLimited < MaxStreak
    /\ \E statusCode \in ResponseStatuses :
          evasion' = IF statusCode = 429 \/ statusCode = 403
                     THEN [RateLimited |-> evasion.RateLimited + 1, SlowDown |-> TRUE]
                     ELSE evasion
    /\ UNCHANGED <<backoffFrame, limiter, delay>>

\* ec.GetDelay()
CallGetDelay ==
    /\ variant = "evasion"
    /\ delay' = <<[count |-> evasion.RateLimited, value |-> GetDelay(evasion)]>>
    /\ UNCHANGED <<backoffFrame, limiter, evasion>>

NextBackoff == LimiterRecord \/ LimiterWait \/ CheckRateLimiting \/ CallGetDelay

SpecBackoff == InitBackoff /\ [][NextBackoff]_vars

-----------------------------------------------------------------------------
(* PathBruteForcer.Start: the worker pool over the wordlist.                *)

\* entries in the wordlist
MaxPaths == 2

\* workers of the pool (p.concurrency is 10)
PoolSize == 2

PoolWorkers == 1..PoolSize

\* the paths loadWordlist returns
Wordlist == <<"/pay", "/checkout", "/admin", "/cart", "/order">>

\* the entries of the wordlist of this run
PathIds == 1..Len(responses)

\* results := make(chan *models.Endpoint, len(paths)), given a smaller buffer
ResultsCapacityOne(n) == IF n = 0 THEN 0 ELSE 1

\* results := make(chan *models.Endpoint, len(paths))
ResultsCapacity(n) == n

\* jobs := make(chan string, len(paths))
JobsCapacity(n) == n

\* what client.Head or client.Get comes back with
HttpReplies ==
    {[err |-> TRUE, StatusCode |-> 0]}
        \cup {[err |-> FALSE, StatusCode |-> s] : s \in {200, 404}}

\* the endpoint a worker reports for a path
PathEndpoint(id) ==
    [URL |-> BaseURL \o Wordlist[id], Method |-> "GET", Type |-> "common_path",
     Source |-> "wordlist"]

InitBrute ==
    /\ variant = "brute"
    /\ mainpc = "feed"
    /\ \E n \in 0..MaxPaths :
          /\ n <= Len(Wordlist)
          /\ taken = [i \in 1..n |-> {}]
          /\ responses = [i \in 1..n |-> <<>>]
    /\ jobs = [buf |-> <<>>, sent |-> 0, closed |-> FALSE]
    /\ pathResults = [buf |-> <<>>, closes |-> 0]
    /\ pool = [w \in PoolWorkers |-> [pc |-> "recv", path |-> 0]]
    /\ poolWg = PoolSize
    /\ closer = "none"
    /\ endpoints = <<>>
    /\ vulns = <<>>
    /\ endpoint = [Method |-> "GET", URL |-> BaseURL]
    /\ session = AnonymousSession
    /\ sharedKey = <<>> /\ httpReq = <<>> /\ panic = "none"
    /\ NoRound /\ NoSequentialTest /\ NoEngine /\ NoSecondRun
    /\ wire = <<>> /\ NoInterceptor /\ NoInference /\ NoProbe /\ NoBackoff

bruteFrame == <<variant, endpoint, session, vulns, roundVars, sharedKey, httpReq,
                replies, clock, mu, engineVulns, callers, delivered, vulnsAgain,
                wire, interceptorVars, inferVars, probeVars, backoffVars>>

\* "jobs <- path" of the feeding loop; blocks while the buffer is full
FeedJob ==
    /\ variant = "brute" /\ mainpc = "feed" /\ panic = "none"
    /\ jobs.sent < Len(responses)
    /\ Len(jobs.buf) < JobsCapacity(Len(responses))
    /\ jobs' = [jobs EXCEPT !.buf = Append(@, jobs.sent + 1), !.sent = @ + 1]
    /\ UNCHANGED <<bruteFrame, mainpc, panic, pathResults, pool, poolWg, closer, taken,
                   responses, endpoints>>

\* close(jobs) after the loop
CloseJobs ==
    /\ variant = "brute" /\ mainpc = "feed" /\ panic = "none"
    /\ jobs.sent = Len(responses)
    /\ jobs' = [jobs EXCEPT !.closed = TRUE]
    /\ mainpc' = "spawn"
    /\ UNCHANGED <<bruteFrame, panic, pathResults, pool, poolWg, closer, taken,
                   responses, endpoints>>

\* go func() { wg.Wait(); close(results) }()
SpawnCloser ==
    /\ variant = "brute" /\ mainpc = "spawn" /\ panic = "none"
    /\ closer' = "waiting"
    /\ mainpc' = "collect"
    /\ UNCHANGED <<bruteFrame, panic, jobs, pathResults, pool, poolWg, taken,
                   responses, endpoints>>

\* "for path := range jobs": a worker receives the next path
WorkerTake(w) ==
    /\ variant = "brute" /\ panic = "none"
    /\ pool[w].pc = "recv" /\ jobs.buf # <<>>
    /\ jobs' = [jobs EXCEPT !.buf = Tail(@)]
    /\ pool' = [pool EXCEPT ![w] = [pc |-> "request", path |-> Head(jobs.buf)]]
    /\ taken' = [taken EXCEPT ![Head(jobs.buf)] = @ \cup {w}]
    /\ UNCHANGED <<bruteFrame, mainpc, panic, pathResults, poolWg, closer, responses,
                   endpoints>>

\* the range ends on the closed, drained channel; the deferred wg.Done() runs
WorkerExit(w) ==
    /\ variant = "brute" /\ panic = "none"
    /\ pool[w].pc = "recv" /\ jobs.buf = <<>> /\ jobs.closed
    /\ pool' = [pool EXCEPT ![w] = [pc |-> "exited", path |-> 0]]
    /\ poolWg' = poolWg - 1
    /\ UNCHANGED <<bruteFrame, mainpc, panic, jobs, pathResults, closer, taken,
                   responses, endpoints>>

\* HEAD, GET when HEAD fails; the path is skipped when both fail or the
\* status is 404
WorkerRequest(w) ==
    /\ variant = "brute" /\ panic = "none"
    /\ pool[w].pc = "request"
    /\ \E head \in HttpReplies, get \in HttpReplies :
          LET resp == IF head.err THEN get ELSE head
          IN /\ responses' = [responses EXCEPT ![pool[w].path] = <<resp>>]
             /\ pool' = [pool EXCEPT ![w] =
                            IF resp.err \/ resp.StatusCode = 404
                            THEN [pc |-> "recv", path |-> 0]
                            ELSE [pc |-> "send", path |-> pool[w].path]]
    /\ UNCHANGED <<bruteFrame, mainpc, panic, jobs, pathResults, poolWg, closer, taken,
                   endpoints>>

\* "results <- &models.Endpoint{...}": blocks while the buffer is full, and
\* panics on a closed channel
WorkerSend(w) ==
    /\ variant = "brute" /\ panic = "none"
    /\ pool[w].pc = "send"
    /\ IF pathResults.closes > 0
       THEN /\ panic' = "send on closed channel"
            /\ UNCHANGED <<pathResults, pool>>
       ELSE /\ Len(pathResults.buf) < ResultsCapacity(Len(responses))
            /\ pathResults' = [pathResults EXCEPT !.buf = Append(@, PathEndpoint(pool[w].path))]
            /\ pool' = [pool EXCEPT ![w] = [pc |-> "recv", path |-> 0]]
            /\ UNCHANGED panic
    /\ UNCHANGED <<bruteFrame, mainpc, jobs, poolWg, closer, taken, responses, endpoints>>

\* wg.Wait() returns when the counter is zero; close(results)
CloserCloses ==
    /\ variant = "brute" /\ panic = "none"
    /\ closer = "waiting" /\ poolWg = 0
    /\ pathResults' = [pathResults EXCEPT !.closes = @ + 1]
    /\ closer' = "done"
    /\ UNCHANGED <<bruteFrame, mainpc, panic, jobs, pool, poolWg, taken, responses,
                   endpoints>>

\* "for ep := range results": one endpoint appended
Collect ==
    /\ variant = "brute" /\ mainpc = "collect" /\ panic = "none"
    /\ pathResults.buf # <<>>
    /\ endpoints' = Append(endpoints, Head(pathResults.buf))
    /\ pathResults' = [pathResults EXCEPT !.buf = Tail(@)]
    /\ UNCHANGED <<bruteFrame, mainpc, panic, jobs, pool, poolWg, closer, taken,
                   responses>>

\* the range ends on the closed, drained channel; Start returns
StartReturns ==
    /\ variant = "brute" /\ mainpc = "collect" /\ panic = "none"
    /\ pathResults.buf = <<>> /\ pathResults.closes > 0
    /\ mainpc' = "returned"
    /\ UNCHANGED <<bruteFrame, panic, bruteVars>>

NextBrute ==
    \/ FeedJob
    \/ CloseJobs
    \/ SpawnCloser
    \/ \E w \in PoolWorkers : WorkerTake(w)
    \/ \E w \in PoolWorkers : WorkerExit(w)
    \/ \E w \in PoolWorkers : WorkerRequest(w)
    \/ \E w \in PoolWorkers : WorkerSend(w)
    \/ CloserCloses
    \/ Collect
    \/ StartReturns

SpecBrute == InitBrute /\ [][NextBrute]_vars

\* every goroutine that can run does run
FairBrute == SpecBrute /\ WF_vars(NextBrute)

-----------------------------------------------------------------------------
(* Properties *)

\* the status code of a drained result, by variant
StatusOf(r) ==
    CASE variant \in {"enhanced", "classify", "twice"} -> r.StatusCode
      [] variant = "basic" -> r
      [] variant = "idem" -> r.StatusCode
      [] OTHER -> 0

\* number of results of a set with a status code in [200,300)
Successes(rs) ==
    Cardinality({i \in 1..Len(rs) : StatusOf(rs[i]) >= 200 /\ StatusOf(rs[i]) < 300})

\* the round was dispatched (the test did not return before launching)
Dispatched == launched = concurrency /\ mainpc \notin {"enter", "warmup", "launch"}

\* the round ran to its end and the findings were returned
Returned == mainpc = "done" /\ launched = concurrency

\* C1: analyzeRaceResults returns no finding for a result set with at most one
\* 2xx result, the empty set and the sets of fewer than 2 results included.
C1_AtMostOneSuccessNoFinding ==
    (variant = "classify" /\ mainpc = "done" /\ Successes(raceResults) <= 1)
        => vulns = <<>>

C1_Witness ==
    /\ variant = "classify" /\ mainpc = "done"
    /\ Len(raceResults) >= 2 /\ Successes(raceResults) = 1
    /\ vulns = <<>>

\* C2: whenever a round of the generic race test (enhanced or 3-argument) ends
\* with at least 2 results in [200,300) on a single-use endpoint, it returns
\* exactly one "Race Condition" finding, CRITICAL or HIGH, whose proof holds
\* the success count and the number of requests.
C2_OneFindingWithProof ==
    ( /\ variant \in {"enhanced", "basic"} /\ Returned
      /\ Successes(raceResults) >= 2
      /\ isSingleUseEndpoint(endpoint.URL) )
        => /\ Len(vulns) = 1
           /\ vulns[1].Type = "Race Condition"
           /\ vulns[1].Severity \in {"CRITICAL", "HIGH"}
           /\ StringsContains(vulns[1].Proof, Itoa(Successes(raceResults)))
           /\ StringsContains(vulns[1].Proof, Itoa(Len(raceResults)))

\* C3: in every HTTP round the number of records collected equals the number
\* of workers whose request was answered without error.
C3_RecordsEqualAnswered ==
    (variant \in {"enhanced", "basic", "idem"} /\ mainpc \in {"classify", "done"}
     /\ launched = concurrency)
        => Len(raceResults) = Cardinality({w \in Workers : answer[w] = "ok"})

\* C4: in the enhanced round no worker is in its network call (or past it)
\* while some worker of the round has not finished constructing its request.
C4_NoFireBeforeAllBuilt ==
    variant = "enhanced"
        => \A w \in Workers :
              (wpc[w] \in {"net", "send"} \/ answer[w] # "none")
                  => \A v \in Workers : req[v] # "none"

\* C5: in every HTTP round a worker that waits for the release signal has its
\* request constructed.
C5_BuiltBeforeBlocking ==
    variant \in {"enhanced", "basic", "idem"}
        => \A w \in Workers : wpc[w] = "barrier" => req[w] = "built"

\* C6: the barrier is closed at most once and only after every worker was
\* launched, it is closed once the launching goroutine is past the launch
\* loop, no worker is in or past its network call (or WebSocket send) before
\* the close, and a worker that is neither at the barrier nor in the network
\* call can always take its next step (it does not block).
C6_BarrierOnceNoOtherBlocking ==
    /\ barrierCloses <= 1
    /\ barrierCloses = 1 => launched = concurrency
    /\ (Dispatched /\ Running) => barrierCloses = 1
    /\ \A w \in Workers :
          (wpc[w] \in {"build", "net", "send"} \/ answer[w] # "none")
              => barrierCloses = 1
    /\ \A w \in Workers :
          (Running /\ wpc[w] \in {"construct", "build", "send"})
              => ENABLED WorkerStep(w)

C6_Witness ==
    /\ barrierCloses = 1 /\ concurrency >= 2
    /\ \E w \in Workers : wpc[w] = "net"
    /\ \E w \in Workers : wpc[w] = "send"

\* C7: in the enhanced round a worker whose request construction failed has
\* returned without waiting at the barrier, without a network call and without
\* a record; the round is never stuck before it returns, and it returns with
\* exactly the records of the workers that were answered.
C7_FailedWorkerDropsOut ==
    variant = "enhanced"
        => /\ \A w \in Workers :
                 req[w] = "nil"
                    => /\ wpc[w] = "done"
                       /\ answer[w] = "none"
                       /\ \A i \in 1..Len(results) : results[i].ID # w
                       /\ \A i \in 1..Len(raceResults) : raceResults[i].ID # w
           /\ mainpc # "done" => ENABLED Next
           /\ mainpc = "done"
                 => /\ barrierCloses = 1
                    /\ {raceResults[i].ID : i \in 1..Len(raceResults)}
                          = {w \in Workers : answer[w] = "ok"}

C7_Witness ==
    /\ variant = "enhanced" /\ mainpc = "done" /\ concurrency >= 2
    /\ \E w \in Workers : req[w] = "nil"
    /\ barrierCloses = 1
    /\ vulns = <<>>

\* C8: results is closed, drained and classified only when every worker has
\* returned and the wait-group is at zero; no worker sends on the closed channel.
C8_JoinBeforeClassify ==
    /\ (resultsClosed \/ mainpc \in {"closeResults", "drain", "classify"} \/ Returned)
          => (wg = 0 /\ \A w \in Workers : wpc[w] = "done")
    /\ panic # "send on closed channel"

C8_Witness ==
    /\ resultsClosed /\ mainpc = "drain"
    /\ Len(results) >= 2

\* every worker of the round is past its network call
AllReturned ==
    /\ Running /\ launched = concurrency
    /\ \A w \in Workers : wpc[w] \in {"send", "done"}

\* C9: a worker about to send always finds room in the results channel, and
\* once every worker's network call has returned the round runs to its end
\* (wait returned, channel closed, classifier run).
C9_RoundFinalizes ==
    /\ [](\A w \in Workers : wpc[w] = "send" => Len(results) < ResultsCap(concurrency))
    /\ (AllReturned ~> (mainpc = "done" /\ resultsClosed))

C9_Witness ==
    /\ AllReturned /\ mainpc = "wait" /\ concurrency >= 2
    /\ \E w \in Workers : wpc[w] = "send"
    /\ Len(results) = concurrency - 1

\* C10: no test variant ends in a run-time panic.
C10_NoPanic == panic = "none"

\* C11: testIdempotencyRaceCondition launches exactly 5 workers, every request
\* a worker builds carries the one shared idempotency key, and when the test
\* returns it returns no finding if at most one response was 2xx and exactly
\* one CRITICAL finding otherwise, whose proof starts with the total 5 and
\* ends with the number of 2xx responses.
C11_IdemRaceFinding ==
    variant = "idem" =>
        /\ launched <= 5
        /\ mainpc \notin {"enter", "launch"} => launched = 5
        /\ \A w \in Workers :
              httpReq[w] # <<>> =>
                  /\ sharedKey # <<>>
                  /\ {p \in httpReq[w][1].Header : p[1] = "Idempotency-Key"}
                        = {<<"Idempotency-Key", sharedKey>>}
        /\ mainpc = "done" =>
              /\ \A w \in Workers : Len(httpReq[w]) = 1
              /\ IF Successes(raceResults) <= 1
                 THEN vulns = <<>>
                 ELSE /\ Len(vulns) = 1
                      /\ vulns[1].Severity = "CRITICAL"
                      /\ SubSeq(vulns[1].Proof, 1, 2) = <<"Sent ", "5">>
                      /\ SubSeq(vulns[1].Proof, Len(vulns[1].Proof) - 1, Len(vulns[1].Proof))
                            = Itoa(Successes(raceResults)) \o <<" succeeded">>

C11_Witness ==
    /\ variant = "idem" /\ mainpc = "done"
    /\ Successes(raceResults) = 2
    /\ \E i \in 1..Len(raceResults) : raceResults[i].IsNil
    /\ \E i \in 1..Len(raceResults) : raceResults[i].StatusCode = 409
    /\ Len(vulns) = 1

\* the values of the Idempotency-Key header of a request
KeyOf(r) == {p[2] : p \in {q \in r.Header : q[1] = "Idempotency-Key"}}

\* a call returned a response with a status code in [200,300)
Is2xx(reply) == ~reply.IsNil /\ reply.StatusCode >= 200 /\ reply.StatusCode < 300

\* C12: testIdempotencyKeyCollision sends A (amount 100) and then B (amount
\* 200) under one idempotency key, and returns exactly one CRITICAL finding
\* if and only if A is 2xx, B is 2xx, B's body differs from A's body and B's
\* body does not contain "idempotency"; otherwise it returns no finding.
C12_CollisionFinding ==
    variant = "collision" =>
        /\ Len(httpReq) >= 1 =>
              /\ httpReq[1].Body[1].amount = 100
              /\ KeyOf(httpReq[1]) = {sharedKey}
        /\ Len(httpReq) = 2 =>
              /\ httpReq[2].Body[1].amount = 200
              /\ KeyOf(httpReq[2]) = {sharedKey}
        /\ mainpc = "done" =>
              IF /\ Len(replies) = 2
                 /\ Is2xx(replies[1]) /\ Is2xx(replies[2])
                 /\ replies[2].Body # replies[1].Body
                 /\ ~StringsContains(replies[2].Body, <<"idempotency">>)
              THEN Len(vulns) = 1 /\ vulns[1].Severity = "CRITICAL"
              ELSE vulns = <<>>

\* C13: testIdempotencyExpiredKeyReuse sends exactly one request, whose key
\* holds the Unix time 25 hours (90000 s) before the time it was made, and
\* when it returns it returns exactly one MEDIUM finding if the response is
\* 2xx and no finding if it is not or the request errored.
C13_ExpiredKeyFinding ==
    variant = "expired" =>
        /\ Len(httpReq) <= 1
        /\ Len(httpReq) = 1 =>
              \E key \in KeyOf(httpReq[1]) :
                  /\ KeyOf(httpReq[1]) = {key}
                  /\ SubSeq(key, 1, Len(FormatInt(clock - 90000)) + 2)
                        = <<"idem_">> \o FormatInt(clock - 90000) \o <<"_">>
        /\ mainpc = "done" =>
              /\ Len(httpReq) = 1 /\ Len(replies) = 1
              /\ IF Is2xx(replies[1])
                 THEN Len(vulns) = 1 /\ vulns[1].Severity = "MEDIUM"
                 ELSE vulns = <<>>

C13_Witness ==
    /\ variant = "expired" /\ mainpc = "done"
    /\ Is2xx(replies[1]) /\ replies[1].StatusCode = 299
    /\ Len(vulns) = 1

\* C14: testIdempotencyMissingKey sends the same payload twice, builds the
\* second request only once the first call has returned, puts no
\* Idempotency-Key header on either, and when it returns it returns exactly
\* one HIGH finding if both responses are 2xx and no finding otherwise.
C14_MissingKeyFinding ==
    variant = "missing" =>
        /\ \A i \in 1..Len(httpReq) : KeyOf(httpReq[i]) = {}
        /\ Len(httpReq) <= 2
        /\ Len(httpReq) = 2 => httpReq[2].Body = httpReq[1].Body
        /\ Len(httpReq) <= Len(replies) + 1
        /\ mainpc = "done" =>
              IF Len(replies) = 2 /\ Is2xx(replies[1]) /\ Is2xx(replies[2])
              THEN Len(vulns) = 1 /\ vulns[1].Severity = "HIGH"
              ELSE vulns = <<>>

C14_Witness ==
    /\ variant = "missing" /\ mainpc = "done"
    /\ Len(httpReq) = 2 /\ Len(replies) = 2
    /\ Is2xx(replies[1]) /\ Is2xx(replies[2])
    /\ Len(vulns) = 1

\* C15: testIdempotencyCaseSensitivity sends one payload first under the
\* mixed-case key "IdempotencyKey123ABC" and then under
\* "idempotencykey123abc", and when it returns it returns exactly one LOW
\* finding if both requests were answered 2xx and no finding otherwise.
C15_CaseFinding ==
    variant = "case" =>
        /\ Len(httpReq) <= 2
        /\ Len(httpReq) >= 1 =>
              KeyOf(httpReq[1]) =
                  {<<"I", "d", "e", "m", "p", "o", "t", "e", "n", "c", "y", "K", "e", "y",
                     "1", "2", "3", "A", "B", "C">>}
        /\ Len(httpReq) = 2 =>
              /\ KeyOf(httpReq[2]) =
                    {<<"i", "d", "e", "m", "p", "o", "t", "e", "n", "c", "y", "k", "e", "y",
                       "1", "2", "3", "a", "b", "c">>}
              /\ httpReq[2].Body = httpReq[1].Body
        /\ mainpc = "done" =>
              IF Len(replies) = 2 /\ Is2xx(replies[1]) /\ Is2xx(replies[2])
              THEN Len(vulns) = 1 /\ vulns[1].Severity = "LOW"
              ELSE vulns = <<>>

C15_Witness ==
    /\ variant = "case" /\ mainpc = "done"
    /\ Len(httpReq) = 2 /\ Len(replies) = 2
    /\ Is2xx(replies[2])
    /\ Len(vulns) = 1

\* C16: on a result set holding a result of negative duration the classifier
\* returns (it does not fail), the number of findings and their severity are
\* what the number of 2xx results alone gives, and the proof of every finding
\* ends with the negative-time marker, true exactly when some result of the
\* set has a negative duration.
C16_NegativeDurationMarked ==
    variant = "classify" =>
        /\ mainpc = "classify" => ENABLED AnalyzeResults
        /\ panic = "none"
        /\ mainpc = "done" =>
              /\ Len(vulns) = IF Successes(raceResults) > 1 THEN 1 ELSE 0
              /\ \A i \in 1..Len(vulns) :
                    LET marker == FormatBool(\E k \in 1..Len(raceResults) :
                                                 raceResults[k].Duration < 0)
                        proof == vulns[i].Proof
                    IN /\ vulns[i].Severity = "CRITICAL"
                       /\ vulns[i].Type = "Race Condition"
                       /\ SubSeq(proof, Len(proof) - Len(marker), Len(proof))
                             = <<". Negative time: ">> \o marker

C16_Witness ==
    /\ variant = "classify" /\ mainpc = "done"
    /\ \E k \in 1..Len(raceResults) :
          raceResults[k].Duration < 0 /\ raceResults[k].StatusCode = 200
    /\ \E k \in 1..Len(raceResults) : raceResults[k].Duration > 0
    /\ Len(vulns) = 1

\* C17: two calls of analyzeRaceResults on the same endpoint and the same
\* result set return the same findings, equal in every field.
C17_SameOutputTwice ==
    (variant = "twice" /\ mainpc = "done" /\ delivered = raceResults)
        => vulnsAgain = vulns

\* C18: for every order in which the results of a set are delivered,
\* analyzeRaceResults returns the same number of findings, with the same
\* severity and the same proof text (total count, success count, timing
\* spread, negative-time flag) and description (success count, total count).
C18_OrderIndependent ==
    (variant = "twice" /\ mainpc = "done") =>
        /\ Len(vulnsAgain) = Len(vulns)
        /\ \A i \in 1..Len(vulns) :
              /\ vulnsAgain[i].Severity = vulns[i].Severity
              /\ vulnsAgain[i].Type = vulns[i].Type
              /\ vulnsAgain[i].Proof = vulns[i].Proof
              /\ vulnsAgain[i].Description = vulns[i].Description

C18_Witness ==
    /\ variant = "twice" /\ mainpc = "done"
    /\ Len(raceResults) = 3
    /\ delivered[1] = raceResults[3] /\ delivered[2] = raceResults[1]
    /\ raceResults[1].Duration = 2 /\ raceResults[2].Duration = 0
    /\ raceResults[3].Duration = -1 /\ raceResults[3].StatusCode = 300
    /\ Len(vulns) = 1 /\ Len(vulnsAgain) = 1

\* the batch of caller c lies in Engine.Vulns whole, contiguous and in order
BatchStored(c) ==
    \E k \in 0..(Len(engineVulns) - Len(callers[c].batch)) :
        SubSeq(engineVulns, k + 1, k + Len(callers[c].batch)) = callers[c].batch

\* C19: whatever the interleaving of the goroutines calling
\* addVulnerabilities, Engine.Vulns never holds a record twice or a record of
\* no batch, the batch of every call that has stored lies in it contiguous
\* and in order, and once all calls have returned it holds every record of
\* every batch.
C19_AppendsAreAtomic ==
    variant = "engine" =>
        /\ \A i, j \in 1..Len(engineVulns) : engineVulns[i] = engineVulns[j] => i = j
        /\ \A i \in 1..Len(engineVulns) :
              LET r == engineVulns[i]
              IN /\ r.Caller \in EngineCallers
                 /\ r.Index \in 1..Len(callers[r.Caller].batch)
        /\ \A c \in EngineCallers :
              callers[c].pc \in {"unlock", "done"} => BatchStored(c)

C19_Witness ==
    /\ variant = "engine"
    /\ Cardinality(EngineCallers) = 3
    /\ \A c \in EngineCallers : callers[c].pc = "done" /\ Len(callers[c].batch) = 2
    /\ Len(engineVulns) = 6
    /\ engineVulns[1].Caller = 3 /\ engineVulns[3].Caller = 1

\* the requests built so far
RequestsBuilt ==
    IF variant \in SeqTests
    THEN {httpReq[i] : i \in 1..Len(httpReq)}
    ELSE {httpReq[w][1] : w \in {x \in DOMAIN httpReq : httpReq[x] # <<>>}}

\* every request built is addressed as the endpoint says and carries the
\* session's cookies and headers
CredentialsCopied ==
    \A r \in RequestsBuilt :
        /\ r.Method = endpoint.Method /\ r.URL = endpoint.URL
        /\ r.Cookies = session.Cookies
        /\ session.Headers \subseteq r.Header

\* C20: no step of TestRaceCondition (both), of the five idempotency tests
\* or of addAuthHeaders changes the Session (cookies, headers, tokens) or the
\* Endpoint, also while several workers build their requests from them; the
\* credentials are copied onto the requests.
C20_InputsNotMutated ==
    [][session' = session /\ endpoint' = endpoint /\ CredentialsCopied']_vars

C20_Witness ==
    /\ variant = "enhanced" /\ concurrency >= 2
    /\ session = ExtractedSession
    /\ \A w \in Workers : httpReq[w] # <<>> /\ httpReq[w][1].Cookies = ExtractedSession.Cookies
    /\ \E w \in Workers : wpc[w] = "net"
    /\ \E w \in Workers : wpc[w] = "barrier"

\* the positions in the interceptor log of the messages that are payment-related
\* and outbound
SentPaymentPositions ==
    {i \in 1..Len(wsLog) : isPaymentMessage(wsLog[i]) /\ wsLog[i].Direction = "sent"}

\* C21: TestWebSocketRaceCondition takes as template the most recent message of
\* the interceptor log that is payment-related and outbound; when the log
\* holds no such message the test returns no finding, launches no worker and
\* puts nothing on the WebSocket
C21_TemplateIsLastSentPayment ==
    (variant = "ws" /\ mainpc # "enter") =>
        IF SentPaymentPositions = {}
        THEN /\ templateMsg = 0 /\ mainpc = "done"
             /\ vulns = <<>> /\ wire = <<>> /\ launched = 0
        ELSE /\ templateMsg > 0
             /\ \E i \in SentPaymentPositions :
                   /\ \A j \in SentPaymentPositions : j <= i
                   /\ TemplateMsg = wsLog[i]

\* a log with two different sent payment messages and a later received one: the
\* round ran with the later of the two and put it on the socket
C21_Witness ==
    /\ variant = "ws" /\ mainpc = "done"
    /\ Cardinality({wsLog[i] : i \in SentPaymentPositions}) > 1
    /\ wsLog[Len(wsLog)].Direction = "received"
    /\ wire # <<>>

\* C22: in TestWebSocketRaceCondition every worker makes exactly one send, each
\* after the single release of the start signal, every message put on the
\* socket is the template data, one per send that reported success; the test
\* returns exactly one CRITICAL "WebSocket Race Condition" finding if and only
\* if more than one send reported success, and no finding otherwise
C22_WorkersSendTemplate ==
    variant = "ws" =>
        /\ barrierCloses <= 1
        /\ \A w \in Workers : answer[w] # "none" => barrierCloses = 1
        /\ \A i \in 1..Len(wire) : wire[i].Data = TemplateMsg.Data
        /\ Len(wire) = Cardinality({w \in Workers : answer[w] = "ok"})
        /\ (mainpc = "done" /\ launched > 0) =>
              /\ \A w \in 0..(concurrency - 1) : answer[w] # "none"
              /\ Len(raceResults) = concurrency
              /\ IF CountTrue(raceResults, 1) > 1
                 THEN /\ Len(vulns) = 1
                      /\ vulns[1].Severity = "CRITICAL"
                      /\ vulns[1].Type = "WebSocket Race Condition"
                 ELSE vulns = <<>>

\* C23: in testRaceConditionEnhanced the ten warm-up attempts are over before a
\* worker is launched and before the barrier is released; whether warm-up
\* requests failed or not, the round launches `concurrency` workers and returns
\* what analyzeRaceResults makes of the collected results
C23_WarmupBeforeRace ==
    variant = "enhanced" =>
        /\ launched > 0 => warmed = WarmupRequests
        /\ barrierCloses > 0 => warmed = WarmupRequests
        /\ (\E w \in Workers : wpc[w] # "idle") => warmed = WarmupRequests
        /\ mainpc \in {"wait", "closeResults", "drain", "classify", "done"} =>
              launched = concurrency
        /\ mainpc = "done" =>
              \E now \in Clock : vulns = analyzeRaceResults(endpoint, raceResults, now)

\* a round on the endpoint whose URL does not parse: each of the ten warm-up
\* requests failed in NewRequest, and the round went on to launch its workers,
\* release the barrier and return
C23_Witness ==
    /\ variant = "enhanced" /\ mainpc = "done"
    /\ ~NewRequestOK("GET", endpoint.URL)
    /\ warmed = WarmupRequests /\ barrierCloses = 1
    /\ launched = concurrency /\ concurrency > 1

\* whether suffix ends s
HasSuffix(s, suffix) ==
    Len(s) >= Len(suffix) /\ SubSeq(s, Len(s) - Len(suffix) + 1, Len(s)) = suffix

\* C24: inferConfirmationEndpoints returns, for each table entry whose source is
\* the suffix of the URL, the URL with only that suffix replaced by the target,
\* nothing else, nothing for a URL with none of the five suffixes, and the same
\* on every call
C24_SuffixSubstitution ==
    (variant = "infer" /\ mainpc \in {"returned", "again"}) =>
        LET url == endpoint.URL
            matching == {k \in 1..Len(Patterns) : HasSuffix(url, Patterns[k].from)}
            expected == { SubSeq(url, 1, Len(url) - Len(Patterns[k].from)) \o Patterns[k].to :
                            k \in matching }
        IN /\ {confirmEndpoints[i] : i \in 1..Len(confirmEndpoints)} = expected
           /\ Len(confirmEndpoints) = Cardinality(matching)
           /\ mainpc = "again" => confirmAgain = confirmEndpoints

\* C26: testMultiEndpointRace returns the empty list whatever the endpoint URL
\* and the confirm URLs inferred from it, so the 2-argument TestRaceCondition
\* returns what its enhanced round returned, at most one finding
C26_MultiEndpointAddsNothing ==
    (variant = "infer" /\ mainpc \in {"returned", "again"}) =>
        /\ multiVulns = <<>>
        /\ \E now \in Clock : vulns = analyzeRaceResults(endpoint, raceResults, now)
        /\ Len(vulns) <= 1

\* a URL from which two confirm URLs were inferred, after an enhanced round
\* that returned a finding
C26_Witness ==
    /\ variant = "infer" /\ mainpc = "returned"
    /\ Len(confirmEndpoints) = 2 /\ Len(vulns) = 1

\* the keys the amount test looks up, in order
AmountKeysInOrder == << <<"a", "m", "o", "u", "n", "t">>, <<"p", "r", "i", "c", "e">>, <<"t", "o", "t", "a", "l">>, <<"v", "a", "l", "u", "e">> >>

\* C25: each message TestWebSocketAmountManipulation sends is the captured
\* outbound parsed message with one key changed to a test amount, that key being
\* the first of amount, price, total, value the message has; a step that emits
\* a finding emits one and moves on to the next message; the captured messages
\* and the log entries are left as they were
C25_OrderedLookupOneFinding ==
    [][ variant = "amount" =>
          /\ (mainpc = "send" /\ Len(wire') > Len(wire)
                 /\ wire'[Len(wire')].Direction = "sent") =>
                LET msg == payMsgs[cursor.m]
                    present == {i \in 1..Len(AmountKeysInOrder) :
                                   AmountKeysInOrder[i] \in DOMAIN msg.Parsed}
                    u == Unmarshal(wire'[Len(wire')].Data)
                IN /\ msg.Direction = "sent" /\ msg.HasParsed /\ present # {}
                   /\ u.ok
                   /\ \E i \in present, a \in 1..Len(TestAmounts) :
                         /\ \A j \in present : i <= j
                         /\ u.parsed = [msg.Parsed EXCEPT ![AmountKeysInOrder[i]] = TestAmounts[a]]
          /\ cursor'.m >= cursor.m
          /\ Len(vulns') > Len(vulns) =>
                Len(vulns') = Len(vulns) + 1 /\ cursor'.m > cursor.m
          /\ mainpc # "start" => payMsgs' = payMsgs
          /\ \A i \in 1..Len(wsLog) : wsLog'[i] = wsLog[i] ]_vars

\* the test has probed a message with the keys price and total, sent more than
\* one manipulated message and ended with a finding
C25_Witness ==
    /\ variant = "amount" /\ mainpc = "done"
    /\ Len(vulns) = 1
    /\ Cardinality({i \in 1..Len(AmountKeysInOrder) :
                       AmountKeysInOrder[i] \in DOMAIN payMsgs[1].Parsed}) = 2
    /\ Len(wire) > WireBeforeLen + 2

\* the position on the wire of the last message sent
LastSendAt ==
    CHOOSE i \in 1..Len(wire) :
        wire[i].Direction = "sent" /\ \A j \in (i + 1)..Len(wire) : wire[j].Direction # "sent"

\* C29: TestWebSocketReplay and TestWebSocketAmountManipulation emit a finding
\* for the message they sent only when the last log entry is a success message
\* that came after that send and answers it
C29_FindingNeedsFreshResponse ==
    [][ (variant \in {"replay", "amount"} /\ Len(vulns') > Len(vulns)) =>
          LET lastMsg == wsLog[Len(wsLog)]
          IN /\ lastMsg.Direction = "received"
             /\ lastMsg.At > LastSendAt
             /\ wire[lastMsg.At].Answers = LastSendAt ]_vars

\* the positions on the wire of the messages of a direction, from i on, in order
RECURSIVE PositionsOf(_, _)
PositionsOf(d, i) ==
    IF i > Len(wire) THEN <<>>
    ELSE (IF wire[i].Direction = d THEN <<i>> ELSE <<>>) \o PositionsOf(d, i + 1)

\* the positions on the wire that the log entries of a direction were made of
RECURSIVE LoggedOf(_, _)
LoggedOf(d, i) ==
    IF i > Len(wsLog) THEN <<>>
    ELSE (IF wsLog[i].Direction = d THEN <<wsLog[i].At>> ELSE <<>>) \o LoggedOf(d, i + 1)

\* C30: the interceptor records every message: per direction, the messages put
\* on the socket are, in order and once each, the log entries of that
\* direction, followed by the message still waiting in the slot for the next
\* poll; and a copy returned by GetMessages holds the log entries
C30_EveryMessageLogged ==
    variant = "intercept" =>
        /\ LoggedOf("sent", 1) \o [i \in 1..Len(lastWSSend) |-> lastWSSend[i].at]
              = PositionsOf("sent", 1)
        /\ LoggedOf("received", 1) \o [i \in 1..Len(lastWSRecv) |-> lastWSRecv[i].at]
              = PositionsOf("received", 1)
        /\ GetMessages(wsLog) = wsLog

\* min(2^(k-1), 8) seconds
ExpectedBackoff(k) == Seconds(IF k <= 3 THEN 2 ^ (k - 1) ELSE 8)

\* C27: after k >= 1 consecutive 429/403 responses LastBackoff is
\* min(2^(k-1), 8) seconds, a value from one to eight seconds, for every k;
\* GetDelay returns the same for the same count; another status resets the
\* count and the back-off to 0
C27_BackoffExponentialCapped ==
    /\ variant = "limiter" =>
          IF limiter.RateLimited = 0 THEN limiter.LastBackoff = Zero64
          ELSE /\ limiter.LastBackoff = ExpectedBackoff(limiter.RateLimited)
               /\ ~Greater64(Seconds(1), limiter.LastBackoff)
               /\ ~Greater64(limiter.LastBackoff, Seconds(8))
    /\ (variant = "evasion" /\ delay # <<>>) =>
          IF delay[1].count = 0 THEN delay[1].value = Zero64
          ELSE delay[1].value = ExpectedBackoff(delay[1].count)

\* the wordlist entries whose request was answered with a status other than 404
AnsweredPaths ==
    {i \in PathIds : responses[i] # <<>> /\ ~responses[i][1].err
                     /\ responses[i][1].StatusCode # 404}

\* Start has returned one endpoint for each answered path and no other
ReturnedAnswered ==
    /\ mainpc = "returned"
    /\ Len(endpoints) = Cardinality(AnsweredPaths)
    /\ \A i \in AnsweredPaths : \E k \in 1..Len(endpoints) : endpoints[k] = PathEndpoint(i)

PoolSafe ==
    /\ \A i \in PathIds : Cardinality(taken[i]) <= 1
    /\ \A w \in PoolWorkers : pool[w].pc = "send" =>
          Len(pathResults.buf) < ResultsCapacity(Len(responses))
    /\ pathResults.closes <= 1
    /\ pathResults.closes = 1 => \A w \in PoolWorkers : pool[w].pc = "exited"
    /\ panic = "none"
    /\ mainpc = "returned" =>
          /\ ReturnedAnswered
          /\ \A i \in PathIds : Cardinality(taken[i]) = 1

\* C28: under every interleaving each path is received from jobs by exactly
\* one worker, a worker about to send on results finds room, results is closed
\* once and only after every worker has exited, and Start returns, with
\* exactly one endpoint for each path answered with a status other than 404
C28_PoolCompletes ==
    /\ [](variant = "brute" => PoolSafe)
    /\ (variant = "brute" ~> ReturnedAnswered)

C28_Witness ==
    /\ variant = "brute" /\ ReturnedAnswered
    /\ Len(responses) = MaxPaths
    /\ Cardinality(AnsweredPaths) >= 1
    /\ \E i \in PathIds : responses[i] # <<>> /\ responses[i][1].StatusCode = 404
    /\ Cardinality(UNION {taken[i] : i \in PathIds}) >= 2

=============================================================================
